---------------------------- MODULE Spec2Model ----------------------------
(***************************************************************************)
(* Microcontroller firmware of multicamera_acquisition.                    *)
(*                                                                         *)
(*   SpecPoll : the polling firmware (src/unnamed/part_000): loop(), the   *)
(*              command parser and acquisitionLoop, with the host, the     *)
(*              clock and the input pins as environment.                   *)
(*   SpecIsr  : the interrupt-driven firmware (src/unnamed/part_002):      *)
(*              acquisitionLoop at statement granularity, interleaved      *)
(*              with inputStateISR.                                        *)
(*   SpecAzure: the Azure firmware (src/unnamed/part_001): loop(),         *)
(*              runAcquisition, azure_pulse_logic and basler_pulse_logic,  *)
(*              with the host and the elapsedMicros timers as environment. *)
(*   SpecTables: the offset tables of the Azure firmware and of its 90fps  *)
(*              and 120fps variants, computed for each requested inverse   *)
(*              framerate.                                                 *)
(***************************************************************************)
EXTENDS Integers, Sequences, FiniteSets, TLC

(***************************************************************************)
(* Bytes of the serial protocol.                                           *)
(***************************************************************************)
STX == 2
ETX == 3
NL == 10
NUL == 0
CharComma == 44
CharPlus == 43
CharMinus == 45
CharZero == 48
CharI == 73
CharX == 88

\* uint16_t; unsigned long values are kept as integers: no reachable value
\* comes near 2^32, which is beyond the integers TLC computes with
U16_MOD == 65536

MAX_INPUT_PINS == 18
MAX_RANDOM_OUTPUT_PINS == 20
MAX_OUTPUT_STATE_CHANGES == 200

(***************************************************************************)
(* Bounds of the model.                                                    *)
(***************************************************************************)
\* chunks the host sends in one behaviour
MaxSends == 2
\* Tick stops once elapsed_cycle_time has reached this value
MaxElapsed == 3
\* capacity of the ISR log buffer in SpecIsr (MAX_INPUT_STATE_CHANGES scaled)
LogCap == 2
\* the largest maxNumbers of a call of parseLine in SpecParse
MaxParseCap == 3
\* cameras of the host pipeline, frames a camera produces or misses, and the
\* capacity of a frame queue in SpecHost
NumCams == 2
MaxFrames == 3
QueueCap == 2

(***************************************************************************)
(* strtoul(s, &end, 10) on the byte string s, starting at index p          *)
(* (1-based).  Skips white space, takes an optional sign, accumulates      *)
(* decimal digits.  With no digit, end = start and the value is 0.  After  *)
(* a '-' the result is the two's complement of the digits: neg is set and  *)
(* val holds the magnitude.                                                *)
(***************************************************************************)
IsDigit(b) == b >= CharZero /\ b <= CharZero + 9

IsSpace(b) == b = 32 \/ (b >= 9 /\ b <= 13)

\* *p of the C string held in s: the terminating NUL past the end
CharAt(s, p) == IF p >= 1 /\ p <= Len(s) THEN s[p] ELSE NUL

RECURSIVE SkipSpace(_, _)
SkipSpace(s, p) == IF IsSpace(CharAt(s, p)) THEN SkipSpace(s, p + 1) ELSE p

RECURSIVE Digits(_, _, _)
Digits(s, p, acc) ==
    IF IsDigit(CharAt(s, p))
    THEN Digits(s, p + 1, acc * 10 + (s[p] - CharZero))
    ELSE [val |-> acc, end |-> p]

strtoul(s, start) ==
    LET p0 == SkipSpace(s, start)
        neg == CharAt(s, p0) = CharMinus
        p1 == IF CharAt(s, p0) \in {CharPlus, CharMinus} THEN p0 + 1 ELSE p0
        d == Digits(s, p1, 0)
    IN  IF d.end = p1
        THEN [val |-> 0, neg |-> FALSE, end |-> start]
        ELSE [val |-> d.val, neg |-> neg /\ d.val # 0, end |-> d.end]

(***************************************************************************)
(* parseLine: the numbers stored in output[0..localCount-1], as a sequence *)
(* (localCount is its length).  mod is the width of the output elements    *)
(* (0: unsigned long, where 2^32 - v is written -v).                       *)
(***************************************************************************)
Narrow(r, mod) ==
    IF mod = 0 THEN (IF r.neg THEN 0 - r.val ELSE r.val)
    ELSE IF r.neg THEN (mod - (r.val % mod)) % mod ELSE r.val % mod

\* one test of the while condition of parseLine and one pass of its body:
\* st.start is the read position, st.acc the numbers stored so far, st.stop
\* is set once the loop is left
ParseOnce(st, s, maxNumbers, mod) ==
    IF st.stop \/ CharAt(s, st.start) = NUL \/ ~(Len(st.acc) < maxNumbers)
    THEN [st EXCEPT !.stop = TRUE]
    ELSE LET r == strtoul(s, st.start)
         IN  IF r.end = st.start
             THEN [st EXCEPT !.stop = TRUE]
             ELSE [start |-> IF CharAt(s, r.end) = CharComma THEN r.end + 1
                             ELSE r.end,
                   acc |-> Append(st.acc, Narrow(r, mod)),
                   stop |-> FALSE]

\* n passes of the loop, one after the other
RECURSIVE ParseTimes(_, _, _, _, _)
ParseTimes(st, s, maxNumbers, mod, n) ==
    IF n <= 0 THEN st
    ELSE IF n = 1 THEN ParseOnce(st, s, maxNumbers, mod)
    ELSE LET half == ParseTimes(st, s, maxNumbers, mod, n \div 2)
         IN  IF half.stop THEN half
             ELSE ParseTimes(half, s, maxNumbers, mod, n - (n \div 2))

\* the loop stores a number in every pass but its last: it is left after
\* maxNumbers passes at the latest
ParseFrom(s, start, acc, maxNumbers, mod) ==
    ParseTimes([start |-> start, acc |-> acc, stop |-> FALSE],
               s, maxNumbers, mod, maxNumbers).acc

parseLineBad(input, maxNumbers) == ParseFrom(input, 1, <<>>, maxNumbers + 1, 0)

parseLine(input, maxNumbers) == ParseFrom(input, 1, <<>>, maxNumbers, 0)

parseLine16Bad(input, maxNumbers) == ParseFrom(input, 1, <<>>, maxNumbers, 256)

parseLine16(input, maxNumbers) == ParseFrom(input, 1, <<>>, maxNumbers, U16_MOD)

\* output[0..k-1] overwritten by the parsed numbers, the rest of the array
\* left as it was
StoreParsed(old, parsed) ==
    parsed \o (IF Len(old) > Len(parsed)
               THEN SubSeq(old, Len(parsed) + 1, Len(old)) ELSE <<>>)

\* if (count != nullptr) *count = localCount
StoreCount(old, parsed) == Len(parsed)

(***************************************************************************)
(* The command frame as the host writes it: one newline-terminated line    *)
(* per field.                                                              *)
(***************************************************************************)
RECURSIVE Dec(_)
Dec(n) == IF n < 10 THEN <<CharZero + n>> ELSE Dec(n \div 10) \o <<CharZero + (n % 10)>>

RECURSIVE Csv(_)
Csv(list) ==
    IF list = <<>> THEN <<>>
    ELSE IF Len(list) = 1 THEN Dec(list[1])
    ELSE LET half == Len(list) \div 2
         IN  Csv(SubSeq(list, 1, half)) \o <<CharComma>>
             \o Csv(SubSeq(list, half + 1, Len(list)))

FrameBody(c) ==
    <<STX, NL>> \o Dec(c.num_cycles) \o <<NL>> \o Dec(c.cycle_duration) \o <<NL>>
    \o Csv(c.input_pins) \o <<NL>> \o Csv(c.random_output_pins) \o <<NL>>
    \o Dec(c.cycles_per_random_update) \o <<NL>>
    \o Csv(c.state_change_times) \o <<NL>> \o Csv(c.state_change_pins) \o <<NL>>
    \o Csv(c.state_change_states) \o <<NL>>

Frame(c) == FrameBody(c) \o <<ETX, NL>>


(***************************************************************************)
(* Azure firmware (src/unnamed/part_001): timing constants and the offset  *)
(* tables.  Times are in microseconds.                                     *)
(***************************************************************************)
NUM_AZURES == 2
AZURE_INV_RATE_USEC == 33333
AZURE_TRIG_WIDTH_USEC == 10
AZURE_PULSE_PERIOD_USEC == 160
AZURE_INTERSUBFRAME_PERIOD_USEC == 1575
BASLER_TRIG_WIDTH_USEC == 100
BASLER_IR_PULSE_WIDTH_USEC == 1000
OFFSET_BETWEEN_BASLER_AZURE == 100
VALID_INV_FRAMERATES == <<6667, 8333, 11111, 16667, 33333>>
\* delay(1000) of loop(), in microseconds
LOOP_DELAY_USEC == 1000 * 1000

\* the 90fps variant (23-06-16-6plus2_90fps.ino)
BASLER_TRIG_WIDTH_USEC_90 == 200
OFFSET_BETWEEN_BASLER_AZURE_90 == 350
DESIRED_AVG_BASLER_INTERFRAME_USEC_90 == 11111
NUM_ELEMENTS_90 == 4

Groups == {"TOP", "BOTTOM"}

\* the cams argument loop() passes for each group
CamStr(g) == IF g = "TOP" THEN "top" ELSE "bottom"

getNumFrameTimeElementsBad(_inv_framerate) == 5

getNumFrameTimeElements(_inv_framerate) ==
    IF _inv_framerate = 6667 THEN 5
    ELSE IF _inv_framerate = 8333 THEN 4
    ELSE IF _inv_framerate = 11111 THEN 3
    ELSE IF _inv_framerate = 16667 THEN 2
    ELSE IF _inv_framerate = 33333 THEN 1
    ELSE 0

\* new int[n]{inits}: the elements without an initialiser are zero
NewIntArray(n, inits) ==
    [k \in 1..n |-> IF k <= Len(inits) THEN inits[k] ELSE 0]

\* f0 of getBaslerFrameTimes
BaslerF0(num_azures) ==
    num_azures * AZURE_PULSE_PERIOD_USEC + OFFSET_BETWEEN_BASLER_AZURE

\* the offsets f0, f1, ... of the branch taken for _inv_framerate; <<>> when
\* no branch is taken (basler_frame_times stays nullptr)
TopFrames(_inv_framerate, f0) ==
    IF _inv_framerate = 6667
    THEN LET f1 == f0 + _inv_framerate
             f2 == f1 + _inv_framerate
             f3 == f2 + _inv_framerate
             f4 == f3 + _inv_framerate
         IN  <<f0, f1, f2, f3, f4>>
    ELSE IF _inv_framerate = 8333
    THEN LET f1 == f0 + AZURE_INTERSUBFRAME_PERIOD_USEC * 5
             f2 == f1 + _inv_framerate
             f3 == f2 + _inv_framerate
         IN  <<f0, f1, f2, f3>>
    ELSE IF _inv_framerate = 11111
    THEN LET f1 == f0 + _inv_framerate
             f2 == f1 + _inv_framerate
         IN  <<f0, f1, f2>>
    ELSE IF _inv_framerate = 16667
    THEN LET f1 == f0 + _inv_framerate
         IN  <<f0, f1>>
    ELSE IF _inv_framerate = 33333
    THEN <<f0>>
    ELSE <<>>

\* the entry of the bottom table for the top offset f
BottomOffsetBad(f) == f + AZURE_INTERSUBFRAME_PERIOD_USEC

BottomOffset(f) == f + 2 * AZURE_INTERSUBFRAME_PERIOD_USEC

\* the initialiser list of the array for cams
CamFrames(f, cams) ==
    IF cams = "top" THEN f ELSE [k \in 1..Len(f) |-> BottomOffset(f[k])]

getBaslerFrameTimes(_inv_framerate, num_azures, cams) ==
    LET n == getNumFrameTimeElements(_inv_framerate)
        f == TopFrames(_inv_framerate, BaslerF0(num_azures))
    IN  IF f = <<>> THEN <<>> ELSE NewIntArray(n, CamFrames(f, cams))

(***************************************************************************)
(* The 120fps variant (old/.../23-06-16-6plus2_120fps.ino) computes its    *)
(* tables at run time with its own getNumFrameTimeElements, whose second   *)
(* and later conditions are assignments: "else if (inv_framerate = 11111)" *)
(* stores 11111 in the parameter and tests the stored value.               *)
(***************************************************************************)
AssignedIsTrue(v) == v # 0

getNumFrameTimeElements120(inv) ==
    IF inv = 8333 THEN 4
    ELSE IF AssignedIsTrue(11111) THEN 3
    ELSE IF AssignedIsTrue(16667) THEN 2
    ELSE IF AssignedIsTrue(33333) THEN 1
    ELSE 0

TopFrames120(inv, f0) ==
    IF inv = 8333
    THEN LET f1 == f0 + AZURE_INTERSUBFRAME_PERIOD_USEC * 5
             f2 == f1 + inv - OFFSET_BETWEEN_BASLER_AZURE
             f3 == f2 + inv
         IN  <<f0, f1, f2, f3>>
    ELSE IF inv = 11111
    THEN LET f1 == f0 + inv
             f2 == f1 + inv
         IN  <<f0, f1, f2>>
    ELSE IF inv = 16667
    THEN LET f1 == f0 + inv
         IN  <<f0, f1>>
    ELSE IF inv = 33333
    THEN <<f0>>
    ELSE <<>>

\* the initialiser list of the array for cams; the last bottom entry of
\* 8333 is 1000 lower (120fps variant, line 254)
CamFrames120(inv, f, cams) ==
    IF cams = "top" THEN f
    ELSE [k \in 1..Len(f) |->
            IF inv = 8333 /\ k = 4 THEN BottomOffset(f[k]) - 1000
            ELSE BottomOffset(f[k])]

getBaslerFrameTimes120(inv, num_azures, cams) ==
    LET n == getNumFrameTimeElements120(inv)
        f == TopFrames120(inv, BaslerF0(num_azures))
    IN  IF f = <<>> THEN <<>> ELSE NewIntArray(n, CamFrames120(inv, f, cams))

(***************************************************************************)
(* The 90fps variant (azure_integration/.../23-06-16-6plus2_90fps.ino)     *)
(* ignores the requested framerate: loop() builds fixed tables of four     *)
(* entries.                                                                *)
(***************************************************************************)
TopFrames90 ==
    LET basler_f0 == NUM_AZURES * AZURE_PULSE_PERIOD_USEC
                         + OFFSET_BETWEEN_BASLER_AZURE_90
        basler_f1 == basler_f0 + AZURE_INTERSUBFRAME_PERIOD_USEC * 7
        basler_f2 == basler_f1 + DESIRED_AVG_BASLER_INTERFRAME_USEC_90
                         - OFFSET_BETWEEN_BASLER_AZURE_90
        basler_f3 == basler_f2 + DESIRED_AVG_BASLER_INTERFRAME_USEC_90
    IN  <<basler_f0, basler_f1, basler_f2, basler_f3>>

FrameTimes90(cams) == CamFrames(TopFrames90, cams)

\* the tables and the element count of each firmware file
NumElementsOf(v, inv) ==
    IF v = "azure" THEN getNumFrameTimeElements(inv)
    ELSE IF v = "old120" THEN getNumFrameTimeElements120(inv)
    ELSE NUM_ELEMENTS_90

FrameTimesOf(v, inv, cams) ==
    IF v = "azure" THEN getBaslerFrameTimes(inv, NUM_AZURES, cams)
    ELSE IF v = "old120" THEN getBaslerFrameTimes120(inv, NUM_AZURES, cams)
    ELSE FrameTimes90(cams)

\* check_requested_framerate: the scan of VALID_INV_FRAMERATES
check_requested_framerate(_inv_framerate) ==
    \E ii \in 1..Len(VALID_INV_FRAMERATES) :
        _inv_framerate = VALID_INV_FRAMERATES[ii]

(***************************************************************************)
(* What the host sends.  CfgA is a well-formed session; CfgR is sent       *)
(* without its footer line; CfgS lists two state-change times but one pin  *)
(* and one state.                                                          *)
(***************************************************************************)
CfgA == [num_cycles |-> 2, cycle_duration |-> 2, input_pins |-> <<5>>,
         random_output_pins |-> <<9>>, cycles_per_random_update |-> 1,
         state_change_times |-> <<1>>, state_change_pins |-> <<7>>,
         state_change_states |-> <<1>>]

CfgR == [num_cycles |-> 1, cycle_duration |-> 1, input_pins |-> <<6, 5>>,
         random_output_pins |-> <<>>, cycles_per_random_update |-> 1,
         state_change_times |-> <<0, 0>>, state_change_pins |-> <<8, 4>>,
         state_change_states |-> <<0, 1>>]

CfgS == [num_cycles |-> 1, cycle_duration |-> 1, input_pins |-> <<5>>,
         random_output_pins |-> <<>>, cycles_per_random_update |-> 2,
         state_change_times |-> <<0, 1>>, state_change_pins |-> <<7>>,
         state_change_states |-> <<1>>]

GoodFrame == Frame(CfgA)
NoFooterFrame == FrameBody(CfgR)
ShortFrame == Frame(CfgS)
InterruptByte == <<CharI>>
Junk == <<CharX, NL>>

HostChunks == {GoodFrame, NoFooterFrame, ShortFrame, InterruptByte, Junk}

\* the monitored pins whose level the environment drives
InPins == {5, 6}

\* what an array element that was never written may hold
Garbage == {13}

VARIABLES
    pc,                 \* "idle": between two passes of loop(); "parse": in
                        \* loop(), reading the fields; "run": in the while
                        \* loop of acquisitionLoop; "wu_send", "wu_reset":
                        \* inside the wrap-up of the interrupt-driven firmware
    field,              \* the field loop() reads next (1..9) while pc = "parse"
    rx,                 \* the serial receive buffer
    sends,              \* chunks the host has sent
    level,              \* the level of each input pin
    elapsed_cycle_time, \* the reading of the elapsedMicros timer
    cycle_index,
    num_input_pins,
    input_pins,
    previous_input_pin_states,
    loc,                \* the locals of loop()
    step_index,
    finished_wrap_up,
    random_bit,
    out,                \* what the step just taken wrote to serial
    wr,                 \* the pinMode / digitalWrite calls of the step just taken
    step,               \* the step just taken
    first_byte,         \* history: firstChar of the current pass (-1: none read)
    footer_char,        \* history: lastChar of the current pass (-1: not read)
    own_lines,          \* history: the lines readStringUntil returned in this pass
    run_time,           \* history: ticks since the timer was zeroed
    term,               \* history: the terminal reply of the current run
    saw_I,              \* history: an 'I' was read by a wrap-up of this run
    unrep,              \* history: changes of each pin since it was last polled
    i_in_run,           \* history: the host sent 'I' during this run
    sc9,                \* history: malformed-then-well-formed scenario
    err9,               \* history: ERROR replies since the scenario began
    rej_pins,           \* history: the state-change pins of the last frame
                        \* rejected at its footer
    input_log_buffer_index,
    input_log,          \* input_log_pins / _states / _times, one record per slot
    wu_i,               \* the loop variable i of the wrap-up's send loop
    attached,           \* pins with inputStateISR attached
    sent_gcyc,          \* history: the cycle in which the ISR stored the record
                        \* that the step just taken sent (-1: none sent)
    \* ---- Azure firmware (src/unnamed/part_001 and its variants) ----
    variant,            \* which firmware file runs: "azure", "fps90", "old120"
    az_pc,              \* "idle": between two passes of loop(); "run": in the
                        \* while loop of runAcquisition; "top", "bottom",
                        \* "count", "ready": the table computation of loop()
    az_rx,              \* the serial receive buffer
    az_sends,           \* chunks the host has sent
    num_cycles,
    inv_framerate,
    ok_framerate,
    num_elements,       \* local of loop()
    basler_frame_times, \* basler_frame_times_TOP / _BOTTOM, locals of loop()
    current_cycle,      \* local of runAcquisition
    previous_pulse,     \* the readings of the four elapsedMicros timers
    basler_frame_timer,
    previous_basler_trigger,    \* previous_basler_trigger_TOP / _BOTTOM
    current_basler_frame_idx,   \* current_basler_frame_idx_TOP / _BOTTOM
    azure_trigger_state,
    basler_trigger_state,       \* basler_trigger_state_TOP / _BOTTOM
    basler_ir_state,            \* basler_ir_state_TOP / _BOTTOM
    basler_await_azure,         \* basler_await_azure_TOP / _BOTTOM
    done,
    pin_level,          \* the level last written to each group of output pins
    az_out,             \* what the step just taken printed
    az_wr,              \* the digitalWrite calls of the step just taken
    az_step,            \* the step just taken
    must_iter,          \* the next iteration of the while loop starts before
                        \* more time passes
    run_clock,          \* history: time since runAcquisition zeroed
                        \* previous_pulse
    pulses,             \* history: sync-pin assertions of the current run
    hi_time,            \* history: time since the sync pin was asserted
                        \* (-1: the pin is LOW)
    brk,                \* history: the current run was interrupted
    fired,              \* history: triggers of each group since the last
                        \* sync pulse of the current run
    total_fired,        \* history: triggers of each group in the current run
    \* ---- one call of parseLine (src/unnamed/part_000) ----
    pl_pc,              \* "off": no call; "call": before the call; "done":
                        \* after it
    pl_input,           \* the string input points to
    pl_max,             \* maxNumbers
    pl_has_count,       \* count != nullptr
    pl_output,          \* the array output points to
    pl_count,           \* *count
    pl_cfg,             \* history: the session configuration the host encoded
    \* host capture pipeline, one entry per camera
    stop_flag,          \* the cooperative stop flag of the workers
    cam_frames,         \* frames the camera has produced or missed so far
    dropped_frames,     \* the dropped-frame counter
    saturated,          \* frames refused by a full queue
    frame_queue,        \* the bounded frame queue, frame ids, oldest first
    accepted,           \* the frame ids passed to accept_frame, in call order
    capture_state,      \* "run" or "done": the capture worker
    writer_state,       \* "run" or "done": the writer worker
    enqueued,           \* history: the frame ids pushed to the queue
    timeouts            \* history: the grab_frame calls that timed out

\* the state of the Azure firmware
azVars == <<variant, az_pc, az_rx, az_sends, num_cycles, inv_framerate,
            ok_framerate, num_elements, basler_frame_times, current_cycle,
            previous_pulse, basler_frame_timer, previous_basler_trigger,
            current_basler_frame_idx, azure_trigger_state,
            basler_trigger_state, basler_ir_state, basler_await_azure, done,
            pin_level, az_out, az_wr, az_step, must_iter, run_clock, pulses,
            hi_time, brk, fired, total_fired>>

\* the state of the polling and of the interrupt-driven firmware
serVars == <<pc, field, rx, sends, level, elapsed_cycle_time, cycle_index,
             num_input_pins, input_pins, previous_input_pin_states, loc,
             step_index, finished_wrap_up, random_bit, out, wr, step,
             first_byte, footer_char, own_lines, run_time, term, saw_I, unrep,
             i_in_run, sc9, err9, rej_pins, input_log_buffer_index, input_log,
             wu_i, attached, sent_gcyc>>

\* the state of the checks of parseLine and of the command frame
parseVars == <<pl_pc, pl_input, pl_max, pl_has_count, pl_output, pl_count,
               pl_cfg>>

\* the state of the host capture pipeline
hostVars == <<stop_flag, cam_frames, dropped_frames, saturated, frame_queue,
              accepted, capture_state, writer_state, enqueued, timeouts>>

vars == <<serVars, azVars, parseVars, hostVars>>

isrVars == <<input_log_buffer_index, input_log, wu_i, attached, sent_gcyc>>

pollHist == <<first_byte, footer_char, own_lines, run_time, term, saw_I, unrep,
              i_in_run, sc9, err9, rej_pins>>

\* the locals of loop() out of scope: the arrays that are parsed without a
\* count keep what the last pass left on the stack
NoLoc(stale_pins, stale_states) ==
    [num_cycles |-> 0, cycle_duration |-> 0, random_output_pins |-> <<>>,
     cycles_per_random_update |-> 0, state_change_times |-> <<>>,
     num_state_changes |-> 0,
     state_change_pins |-> stale_pins, n_pins |-> 0,
     state_change_states |-> stale_states, n_states |-> 0]

(***************************************************************************)
(* The Azure firmware after setup(): every output pin LOW, every state     *)
(* variable at its initialiser, the timers just started.                   *)
(***************************************************************************)
PinGroups == {"azure", "trig_TOP", "trig_BOTTOM", "ir_TOP", "ir_BOTTOM"}

BothGroups(v) == [g \in Groups |-> v]

NoTables == BothGroups(<<>>)

AzBoot(v, position, inv) ==
    /\ variant = v
    /\ az_pc = position
    /\ az_rx = <<>>
    /\ az_sends = 0
    /\ num_cycles = 0
    /\ inv_framerate = inv
    /\ ok_framerate = FALSE
    /\ num_elements = 0
    /\ basler_frame_times = NoTables
    /\ current_cycle = 0
    /\ previous_pulse = 0
    /\ basler_frame_timer = 0
    /\ previous_basler_trigger = BothGroups(0)
    /\ current_basler_frame_idx = BothGroups(0)
    /\ azure_trigger_state = 0
    /\ basler_trigger_state = BothGroups(0)
    /\ basler_ir_state = BothGroups(0)
    /\ basler_await_azure = BothGroups(0)
    /\ done = 0
    /\ pin_level = [p \in PinGroups |-> 0]
    /\ az_out = <<>>
    /\ az_wr = <<>>
    /\ az_step = "setup"
    /\ must_iter = FALSE
    /\ run_clock = 0
    /\ pulses = 0
    /\ hi_time = -1
    /\ brk = FALSE
    /\ fired = BothGroups(0)
    /\ total_fired = BothGroups(0)

ZeroLevel == [p \in InPins |-> 0]

InitSer ==
    /\ pc = "idle"
    /\ field = 0
    /\ rx = <<>>
    /\ sends = 0
    /\ level \in [InPins -> {0, 1}]
    /\ elapsed_cycle_time = 0
    /\ cycle_index = 0
    /\ num_input_pins = 0
    /\ input_pins = <<>>
    /\ previous_input_pin_states = <<>>
    /\ loc = NoLoc(<<>>, <<>>)
    /\ step_index = 0
    /\ finished_wrap_up = FALSE
    /\ random_bit = 0
    /\ out = <<>>
    /\ wr = <<>>
    /\ step = "setup"
    /\ first_byte = -1
    /\ footer_char = -1
    /\ own_lines = <<>>
    /\ run_time = 0
    /\ term = "none"
    /\ saw_I = FALSE
    /\ unrep = ZeroLevel
    /\ i_in_run = FALSE
    /\ sc9 = "none"
    /\ err9 = 0
    /\ rej_pins = <<>>
    /\ input_log_buffer_index = 0
    /\ input_log = <<>>
    /\ wu_i = 0
    /\ attached = {}
    /\ sent_gcyc = -1

\* no configuration
NoCfg == [num_cycles |-> 0, cycle_duration |-> 0, input_pins |-> <<>>,
          random_output_pins |-> <<>>, cycles_per_random_update |-> 0,
          state_change_times |-> <<>>, state_change_pins |-> <<>>,
          state_change_states |-> <<>>]

Cams == 1..NumCams

\* the host pipeline with every worker started and nothing captured
HostBoot ==
    /\ stop_flag = FALSE
    /\ cam_frames = [c \in Cams |-> 0]
    /\ dropped_frames = [c \in Cams |-> 0]
    /\ saturated = [c \in Cams |-> 0]
    /\ frame_queue = [c \in Cams |-> <<>>]
    /\ accepted = [c \in Cams |-> <<>>]
    /\ capture_state = [c \in Cams |-> "run"]
    /\ writer_state = [c \in Cams |-> "run"]
    /\ enqueued = [c \in Cams |-> <<>>]
    /\ timeouts = [c \in Cams |-> 0]

\* no call of parseLine under way
ParseOff ==
    /\ pl_pc = "off"
    /\ pl_input = <<>>
    /\ pl_max = 0
    /\ pl_has_count = FALSE
    /\ pl_output = <<>>
    /\ pl_count = 0
    /\ pl_cfg = NoCfg

InitCommon ==
    /\ InitSer
    /\ AzBoot("azure", "idle", 0)
    /\ HostBoot
    /\ ParseOff


(***************************************************************************)
(* Serial output and pin calls of one step.                                *)
(***************************************************************************)
Tok(name) == [tok |-> name, pin |-> 0, state |-> 0, time |-> 0, cycle |-> 0,
              src |-> "tok"]

\* reportPinState(pin, state, time): the record carries the global
\* cycle_index as it is when the call is made; src names the call site
Report(pin, state, time, cyc, site) ==
    [tok |-> "report", pin |-> pin % U16_MOD, state |-> state % 256,
     time |-> time, cycle |-> cyc, src |-> site]

PinCall(op, pin, val) == [op |-> op, pin |-> pin, val |-> val]

Toks(o) == {o[k].tok : k \in 1..Len(o)}

DigitalRead(p) == IF p \in InPins THEN level[p] ELSE 0

\* Serial.readStringUntil('\n') with the terminator in the buffer
HasNL(s) == \E k \in 1..Len(s) : s[k] = NL

FirstNL(s) == CHOOSE k \in 1..Len(s) : s[k] = NL /\ \A j \in 1..(k - 1) : s[j] # NL

\* loc with the scalars out of scope, the stack arrays as they were left
LeaveLoop == NoLoc(loc.state_change_pins, loc.state_change_states)

\* an array that comes into scope holding base; the elements from..to were
\* not written by this pass: each holds what the stack held, or anything
RECURSIVE FillSet(_, _, _)
FillSet(base, from, to) ==
    IF from > to THEN {base}
    ELSE LET rest == FillSet(base, from, to - 1)
             vals == (IF to <= Len(base) THEN {base[to]} ELSE {}) \cup Garbage
         IN  { IF to <= Len(a) THEN [a EXCEPT ![to] = v] ELSE Append(a, v) :
                 a \in rest, v \in vals }

(***************************************************************************)
(* The conditions of loop() and acquisitionLoop.                           *)
(***************************************************************************)
\* part_000:329  firstChar != '\x02'
HeaderOk(firstChar) == firstChar = STX

\* part_000:377  lastChar != '\x03'
FooterOkBad(lastChar) == lastChar # STX

FooterOk(lastChar) == lastChar = ETX

\* part_000:247  current_state != previous_input_pin_states[i]
EdgeDetectedBad(current_state, previous_state) == current_state = 1

EdgeDetected(current_state, previous_state) == current_state # previous_state

\* part_000:273  interruptChar == 'I'
IsInterruptBad(interruptChar) == FALSE

IsInterruptAny(interruptChar) == TRUE

IsInterrupt(interruptChar) == interruptChar = CharI

\* part_000:257
TimeReachedBad(t, due) == TRUE

TimeReached(t, due) == t >= due

\* part_000:284
BoundaryDueBad(t, cycle_duration) == FALSE

BoundaryDue(t, cycle_duration) == t >= cycle_duration

\* part_000:289  elapsed_cycle_time = elapsed_cycle_time - cycle_duration
CarryTimerBad(t, cycle_duration) == 0

CarryTimer(t, cycle_duration) == t - cycle_duration

\* part_000:292  cycle_index % cycles_per_random_update == 0; the remainder
\* of a division by zero is undefined: either outcome
RandomDueBad(ci, n) == {TRUE}

RandomDue(ci, n) == IF n = 0 THEN {TRUE, FALSE} ELSE {ci % n = 0}

(***************************************************************************)
(* Environment: the host, the clock, the input pins.                       *)
(***************************************************************************)
EnvStep == /\ out' = <<>>
           /\ wr' = <<>>
           /\ step' = "env"

Monitored(p) == \E i \in 1..num_input_pins : input_pins[i] = p

HostSend(c) ==
    /\ sends < MaxSends
    /\ sends' = sends + 1
    /\ rx' = rx \o c
    /\ i_in_run' = (i_in_run \/ (c = InterruptByte /\ pc = "run" /\ rx = <<>>
                                 /\ cycle_index < loc.num_cycles))
    /\ sc9' = IF sc9 = "none" /\ c = NoFooterFrame /\ pc = "idle" /\ rx = <<>>
                 /\ sends = 0
              THEN "bad"
              ELSE IF sc9 = "bad" /\ c = GoodFrame THEN "good"
              ELSE IF sc9 \in {"bad", "good"} THEN "void"
              ELSE sc9
    /\ EnvStep
    /\ UNCHANGED <<pc, field, level, elapsed_cycle_time, cycle_index,
                   num_input_pins, input_pins, previous_input_pin_states, loc,
                   step_index, finished_wrap_up, random_bit, first_byte,
                   footer_char, own_lines, run_time, term, saw_I, unrep, err9>>
    /\ UNCHANGED <<isrVars, rej_pins, azVars, parseVars, hostVars>>

Tick ==
    /\ pc = "run"
    /\ elapsed_cycle_time < MaxElapsed
    /\ elapsed_cycle_time' = elapsed_cycle_time + 1
    /\ run_time' = run_time + 1
    /\ EnvStep
    /\ UNCHANGED <<pc, field, rx, sends, level, cycle_index, num_input_pins,
                   input_pins, previous_input_pin_states, loc, step_index,
                   finished_wrap_up, random_bit, first_byte, footer_char,
                   own_lines, term, saw_I, unrep, i_in_run, sc9, err9>>
    /\ UNCHANGED <<isrVars, rej_pins, azVars, parseVars, hostVars>>

PinChange(p) ==
    /\ level' = [level EXCEPT ![p] = 1 - level[p]]
    /\ unrep' = IF pc = "run" /\ Monitored(p)
                THEN [unrep EXCEPT ![p] = IF unrep[p] >= 1 THEN 2 ELSE 1]
                ELSE unrep
    /\ EnvStep
    /\ UNCHANGED <<pc, field, rx, sends, elapsed_cycle_time, cycle_index,
                   num_input_pins, input_pins, previous_input_pin_states, loc,
                   step_index, finished_wrap_up, random_bit, first_byte,
                   footer_char, own_lines, run_time, term, saw_I, i_in_run,
                   sc9, err9>>
    /\ UNCHANGED <<isrVars, rej_pins, azVars, parseVars, hostVars>>


(***************************************************************************)
(* Polling firmware, loop(): READY, delay, and the first byte.             *)
(***************************************************************************)
CountError(replied) ==
    err9' = IF replied /\ sc9 \in {"bad", "good"} THEN err9 + 1 ELSE err9

\* part_000:318, 329-333  what a pass of loop() writes before it parses:
\* READY, and ERROR when the first byte read is not STX
PassRepliesBad(hasByte, headerOk) ==
    IF hasByte /\ ~headerOk THEN <<Tok("ERROR")>> ELSE <<Tok("READY")>>

PassReplies(hasByte, headerOk) ==
    <<Tok("READY")>>
    \o (IF hasByte /\ ~headerOk THEN <<Tok("ERROR")>> ELSE <<>>)

LoopPass ==
    /\ pc = "idle"
    /\ step' = "LoopPass"
    /\ wr' = <<>>
    /\ footer_char' = -1
    /\ own_lines' = <<>>
    /\ IF rx = <<>>
       THEN /\ out' = PassReplies(FALSE, TRUE)
            /\ first_byte' = -1
            /\ CountError(FALSE)
            /\ UNCHANGED <<pc, field, rx>>
       ELSE /\ first_byte' = Head(rx)
            /\ IF ~HeaderOk(Head(rx))
               THEN \* Serial.flush() waits for the bytes being sent: the
                    \* receive buffer is not touched
                    /\ rx' = Tail(rx)
                    /\ out' = PassReplies(TRUE, FALSE)
                    /\ CountError(TRUE)
                    /\ UNCHANGED <<pc, field>>
               ELSE \* Serial.read() of the '\n': one more byte if there is one
                    /\ rx' = IF Len(rx) >= 2 THEN Tail(Tail(rx)) ELSE <<>>
                    /\ out' = PassReplies(TRUE, TRUE)
                    /\ pc' = "parse"
                    /\ field' = 1
                    /\ CountError(FALSE)
    /\ UNCHANGED <<sends, level, elapsed_cycle_time, cycle_index,
                   num_input_pins, input_pins, previous_input_pin_states, loc,
                   step_index, finished_wrap_up, random_bit, run_time, term,
                   saw_I, unrep, i_in_run, sc9>>
    /\ UNCHANGED <<isrVars, rej_pins, azVars, parseVars, hostVars>>

(***************************************************************************)
(* acquisitionLoop up to the while loop (part_000:207-238), entered from   *)
(* loop() after RECEIVED.                                                  *)
(***************************************************************************)
RECURSIVE InitReports(_)
InitReports(n) ==
    IF n = 0 THEN <<>>
    ELSE Append(InitReports(n - 1),
                Report(input_pins[n], DigitalRead(input_pins[n]), 0, cycle_index, "init"))

RECURSIVE RandReports(_, _, _, _)
RandReports(pins, bit, t, cyc) ==
    IF pins = <<>> THEN <<>>
    ELSE <<Report(Head(pins), bit, t, cyc, "rand")>> \o RandReports(Tail(pins), bit, t, cyc)

RECURSIVE RandWrites(_, _, _)
RandWrites(pins, bit, withMode) ==
    IF pins = <<>> THEN <<>>
    ELSE (IF withMode THEN <<PinCall("pinModeOut", Head(pins), 0)>> ELSE <<>>)
         \o <<PinCall("write", Head(pins), bit)>> \o RandWrites(Tail(pins), bit, withMode)

AcqStart ==
    /\ out' = <<Tok("RECEIVED")>> \o InitReports(num_input_pins)
              \o RandReports(loc.random_output_pins, 0, 0, 0)
    /\ wr' = [i \in 1..num_input_pins |-> PinCall("pinModeIn", input_pins[i], 0)]
             \o [i \in 1..loc.num_state_changes |->
                    PinCall("pinModeOut", loc.state_change_pins[i], 0)]
             \o RandWrites(loc.random_output_pins, 0, TRUE)
    /\ previous_input_pin_states' =
           StoreParsed(previous_input_pin_states,
                       [i \in 1..num_input_pins |-> DigitalRead(input_pins[i])])
    /\ cycle_index' = 0
    /\ step_index' = 0
    /\ finished_wrap_up' = FALSE
    /\ random_bit' = 0
    /\ elapsed_cycle_time' = 0
    /\ run_time' = 0
    /\ term' = "none"
    /\ saw_I' = FALSE
    /\ unrep' = ZeroLevel
    /\ i_in_run' = FALSE
    /\ sc9' = IF sc9 = "good" THEN "done" ELSE sc9
    /\ pc' = "run"
    /\ field' = 0

(***************************************************************************)
(* loop(): one readStringUntil('\n') and what is done with the line.       *)
(***************************************************************************)
Consume(line, rest) ==
    /\ rx' = rest
    /\ step' = "ReadField"
    /\ own_lines' = Append(own_lines, line)
    /\ IF field < 9
       THEN /\ pc' = "parse"
            /\ field' = field + 1
            /\ out' = <<>>
            /\ wr' = <<>>
            /\ footer_char' = footer_char
            /\ IF field = 3
               THEN LET parsed == parseLine16(line, MAX_INPUT_PINS)
                    IN  /\ input_pins' = StoreParsed(input_pins, parsed)
                        /\ num_input_pins' = StoreCount(num_input_pins, parsed)
                        /\ loc' = loc
               ELSE /\ UNCHANGED <<input_pins, num_input_pins>>
                    /\ CASE field = 1 ->
                              loc' = [loc EXCEPT !.num_cycles = Narrow(strtoul(line, 1), 0)]
                         [] field = 2 ->
                              loc' = [loc EXCEPT !.cycle_duration = Narrow(strtoul(line, 1), 0)]
                         [] field = 4 ->
                              loc' = [loc EXCEPT !.random_output_pins =
                                          parseLine16(line, MAX_RANDOM_OUTPUT_PINS)]
                         [] field = 5 ->
                              loc' = [loc EXCEPT !.cycles_per_random_update =
                                          Narrow(strtoul(line, 1), 0)]
                         [] field = 6 ->
                              LET parsed == parseLine(line, MAX_OUTPUT_STATE_CHANGES)
                              IN  loc' = [loc EXCEPT !.state_change_times = parsed,
                                                     !.num_state_changes = Len(parsed)]
                         [] field = 7 ->
                              LET parsed == parseLine16(line, MAX_OUTPUT_STATE_CHANGES)
                              IN  \E a \in FillSet(StoreParsed(loc.state_change_pins, parsed),
                                                   Len(parsed) + 1, loc.num_state_changes) :
                                      loc' = [loc EXCEPT !.state_change_pins = a,
                                                         !.n_pins = Len(parsed)]
                         [] field = 8 ->
                              LET parsed == parseLine(line, MAX_OUTPUT_STATE_CHANGES)
                              IN  \E a \in FillSet(StoreParsed(loc.state_change_states, parsed),
                                                   Len(parsed) + 1, loc.num_state_changes) :
                                      loc' = [loc EXCEPT !.state_change_states = a,
                                                         !.n_states = Len(parsed)]
            /\ CountError(FALSE)
            /\ UNCHANGED <<elapsed_cycle_time, cycle_index, previous_input_pin_states,
                           step_index, finished_wrap_up, random_bit, run_time, term,
                           saw_I, unrep, i_in_run, sc9>>
       ELSE \* char lastChar = Serial.readStringUntil('\n')[0]
            /\ footer_char' = CharAt(line, 1)
            /\ UNCHANGED <<input_pins, num_input_pins>>
            /\ IF ~FooterOk(CharAt(line, 1))
               THEN /\ out' = <<Tok("ERROR")>>
                    /\ wr' = <<>>
                    /\ pc' = "idle"
                    /\ field' = 0
                    /\ loc' = LeaveLoop
                    /\ CountError(TRUE)
                    /\ UNCHANGED <<elapsed_cycle_time, cycle_index,
                                   previous_input_pin_states, step_index,
                                   finished_wrap_up, random_bit, run_time, term,
                                   saw_I, unrep, i_in_run, sc9>>
               ELSE /\ AcqStart
                    /\ loc' = loc
                    /\ CountError(FALSE)
    /\ rej_pins' = IF field = 9 /\ ~FooterOk(CharAt(line, 1))
                   THEN parseLine16(own_lines[7], MAX_OUTPUT_STATE_CHANGES)
                   ELSE rej_pins
    /\ UNCHANGED <<sends, level, first_byte>>
    /\ UNCHANGED <<isrVars, azVars, parseVars, hostVars>>

ReadLine ==
    /\ pc = "parse"
    /\ HasNL(rx)
    /\ LET k == FirstNL(rx)
       IN  Consume(SubSeq(rx, 1, k - 1), SubSeq(rx, k + 1, Len(rx)))

\* no '\n' arrives within the stream timeout: what was read is returned
ReadTimeout ==
    /\ pc = "parse"
    /\ ~HasNL(rx)
    /\ Consume(rx, <<>>)


(***************************************************************************)
(* acquisitionLoop: one iteration of the while loop (part_000:241-302).    *)
(***************************************************************************)
\* the input pins whose reading differs from the stored one
Changed == { i \in 1..num_input_pins :
               EdgeDetected(DigitalRead(input_pins[i]), previous_input_pin_states[i]) }

RECURSIVE EdgeReports(_)
EdgeReports(n) ==
    IF n = 0 THEN <<>>
    ELSE EdgeReports(n - 1)
         \o (IF n \in Changed
             THEN <<Report(input_pins[n], DigitalRead(input_pins[n]),
                           elapsed_cycle_time, cycle_index, "edge")>>
             ELSE <<>>)

\* acquisitionLoop returns: its locals and those of loop() go out of scope
LeaveRun ==
    /\ pc' = "idle"
    /\ loc' = LeaveLoop
    /\ step_index' = 0
    /\ finished_wrap_up' = FALSE
    /\ random_bit' = 0
    /\ run_time' = 0

AcqIter ==
    /\ pc = "run"
    /\ cycle_index < loc.num_cycles
    /\ step' = "AcqIter"
    /\ previous_input_pin_states' =
           [i \in 1..Len(previous_input_pin_states) |->
               IF i \in Changed THEN DigitalRead(input_pins[i])
               ELSE previous_input_pin_states[i]]
    /\ unrep' = [p \in InPins |-> IF Monitored(p) THEN 0 ELSE unrep[p]]
    /\ IF step_index < loc.num_state_changes
       THEN \* perform next state change
            /\ IF TimeReached(elapsed_cycle_time, loc.state_change_times[step_index + 1])
               THEN /\ wr' = <<PinCall("write", loc.state_change_pins[step_index + 1],
                                       loc.state_change_states[step_index + 1])>>
                    /\ step_index' = step_index + 1
               ELSE /\ wr' = <<>>
                    /\ step_index' = step_index
            /\ out' = EdgeReports(num_input_pins)
            /\ UNCHANGED <<pc, rx, loc, finished_wrap_up, random_bit, cycle_index,
                           elapsed_cycle_time, run_time, term, saw_I>>
       ELSE IF ~finished_wrap_up
       THEN \* wrap up the current cycle: check for the interrupt signal
            /\ wr' = <<>>
            /\ IF rx # <<>>
               THEN /\ rx' = Tail(rx)
                    /\ saw_I' = (saw_I \/ Head(rx) = CharI)
                    /\ IF IsInterrupt(Head(rx))
                       THEN /\ out' = Append(EdgeReports(num_input_pins), Tok("INTERRUPTED"))
                            /\ term' = IF term = "none" THEN "I" ELSE "both"
                            /\ LeaveRun
                       ELSE /\ out' = EdgeReports(num_input_pins)
                            /\ finished_wrap_up' = TRUE
                            /\ UNCHANGED <<pc, loc, step_index, random_bit, run_time, term>>
               ELSE /\ out' = EdgeReports(num_input_pins)
                    /\ finished_wrap_up' = TRUE
                    /\ UNCHANGED <<pc, rx, loc, step_index, random_bit, run_time,
                                   term, saw_I>>
            /\ UNCHANGED <<cycle_index, elapsed_cycle_time>>
       ELSE IF BoundaryDue(elapsed_cycle_time, loc.cycle_duration)
       THEN \* start the next cycle
            /\ step_index' = 0
            /\ cycle_index' = cycle_index + 1
            /\ finished_wrap_up' = FALSE
            /\ elapsed_cycle_time' = CarryTimer(elapsed_cycle_time, loc.cycle_duration)
            /\ \E due \in RandomDue(cycle_index', loc.cycles_per_random_update) :
                 IF due
                 THEN \E bit \in {0, 1} :
                        /\ random_bit' = bit
                        /\ wr' = RandWrites(loc.random_output_pins, bit, FALSE)
                        /\ out' = EdgeReports(num_input_pins)
                                  \o RandReports(loc.random_output_pins, bit,
                                                 elapsed_cycle_time', cycle_index')
                 ELSE /\ random_bit' = random_bit
                      /\ wr' = <<>>
                      /\ out' = EdgeReports(num_input_pins)
            /\ UNCHANGED <<pc, rx, loc, run_time, term, saw_I>>
       ELSE /\ wr' = <<>>
            /\ out' = EdgeReports(num_input_pins)
            /\ UNCHANGED <<pc, rx, loc, step_index, finished_wrap_up, random_bit,
                           cycle_index, elapsed_cycle_time, run_time, term, saw_I>>
    /\ UNCHANGED <<field, sends, level, num_input_pins, input_pins, first_byte,
                   footer_char, own_lines, i_in_run, sc9, err9>>
    /\ UNCHANGED <<isrVars, rej_pins, azVars, parseVars, hostVars>>

\* the while condition fails: Serial.write("F\n") and return
AcqFinish ==
    /\ pc = "run"
    /\ ~(cycle_index < loc.num_cycles)
    /\ step' = "AcqFinish"
    /\ out' = <<Tok("F")>>
    /\ wr' = <<>>
    /\ term' = IF term = "none" THEN "F" ELSE "both"
    /\ LeaveRun
    /\ UNCHANGED <<field, rx, sends, level, elapsed_cycle_time, cycle_index,
                   num_input_pins, input_pins, previous_input_pin_states,
                   first_byte, footer_char, own_lines, saw_I, unrep, i_in_run,
                   sc9, err9>>
    /\ UNCHANGED <<isrVars, rej_pins, azVars, parseVars, hostVars>>

InitPoll == InitCommon

NextPoll ==
    \/ \E c \in HostChunks : HostSend(c)
    \/ Tick
    \/ \E p \in InPins : PinChange(p)
    \/ LoopPass
    \/ ReadLine
    \/ ReadTimeout
    \/ AcqIter
    \/ AcqFinish

SpecPoll == InitPoll /\ [][NextPoll]_vars

\* the clock keeps advancing (up to the bound of Tick) and the processor
\* keeps executing the while loop of acquisitionLoop and loop()
FairPoll ==
    /\ WF_vars(Tick)
    /\ WF_vars(AcqIter)
    /\ WF_vars(AcqFinish)
    /\ WF_vars(LoopPass)

SpecPollLive == InitPoll /\ [][NextPoll]_vars /\ FairPoll


(***************************************************************************)
(* Interrupt-driven firmware (src/unnamed/part_002).                       *)
(***************************************************************************)
\* the frame that loop() of part_002 accepts: it reads the first field right
\* after the STX byte and the footer with one Serial.read() after the last
\* line
IsrFrame == <<STX>> \o Tail(Tail(FrameBody(CfgA))) \o <<ETX>>

HostChunksIsr == {IsrFrame, InterruptByte, <<STX>>}

\* an element of a zero-initialised global array
At0(arr, i) == IF i <= Len(arr) THEN arr[i] ELSE 0

SetAt0(arr, i, v) ==
    [k \in 1..(IF i > Len(arr) THEN i ELSE Len(arr)) |->
        IF k = i THEN v ELSE At0(arr, k)]

\* part_002:95  input_log_buffer_index < MAX_INPUT_STATE_CHANGES
LogHasRoomBad(index) == index <= LogCap

LogHasRoom(index) == index < LogCap

\* inputStateISR (part_002:91-104): st = <<log, previous states>> after the
\* pins 1..n have been visited
RECURSIVE IsrScan(_, _)
IsrScan(n, lv) ==
    IF n = 0 THEN <<input_log, previous_input_pin_states>>
    ELSE LET st == IsrScan(n - 1, lv)
             p == input_pins[n]
             current_state == IF p \in InPins THEN lv[p] ELSE 0
         IN  IF current_state # At0(st[2], n) /\ LogHasRoom(Len(st[1]))
             THEN <<Append(st[1], [pin |-> p, state |-> current_state,
                                   time |-> elapsed_cycle_time,
                                   gcyc |-> cycle_index]),
                    SetAt0(st[2], n, current_state)>>
             ELSE st

\* a pin changes; if the ISR is attached to it, it runs at once
PinChangeIsr(p) ==
    /\ level' = [level EXCEPT ![p] = 1 - level[p]]
    /\ IF p \in attached
       THEN LET st == IsrScan(num_input_pins, level')
            IN  /\ input_log' = st[1]
                /\ input_log_buffer_index' = Len(st[1])
                /\ previous_input_pin_states' = st[2]
       ELSE UNCHANGED <<input_log, input_log_buffer_index, previous_input_pin_states>>
    /\ out' = <<>>
    /\ wr' = <<>>
    /\ step' = "env"
    /\ sent_gcyc' = -1
    /\ UNCHANGED <<pc, field, rx, sends, elapsed_cycle_time, cycle_index,
                   num_input_pins, input_pins, loc, step_index, finished_wrap_up,
                   random_bit, wu_i, attached>>
    /\ UNCHANGED <<pollHist, azVars, parseVars, hostVars>>

HostSendIsr(c) ==
    /\ sends < MaxSends
    /\ sends' = sends + 1
    /\ rx' = rx \o c
    /\ out' = <<>>
    /\ wr' = <<>>
    /\ step' = "env"
    /\ sent_gcyc' = -1
    /\ UNCHANGED <<pc, field, level, elapsed_cycle_time, cycle_index,
                   num_input_pins, input_pins, previous_input_pin_states, loc,
                   step_index, finished_wrap_up, random_bit,
                   input_log_buffer_index, input_log, wu_i, attached>>
    /\ UNCHANGED <<pollHist, azVars, parseVars, hostVars>>

TickIsr ==
    /\ pc \in {"run", "wu_send", "wu_reset"}
    /\ elapsed_cycle_time < MaxElapsed
    /\ elapsed_cycle_time' = elapsed_cycle_time + 1
    /\ out' = <<>>
    /\ wr' = <<>>
    /\ step' = "env"
    /\ sent_gcyc' = -1
    /\ UNCHANGED <<pc, field, rx, sends, level, cycle_index, num_input_pins,
                   input_pins, previous_input_pin_states, loc, step_index,
                   finished_wrap_up, random_bit, input_log_buffer_index,
                   input_log, wu_i, attached>>
    /\ UNCHANGED <<pollHist, azVars, parseVars, hostVars>>

\* loop() of part_002: READY, delay, the first byte
LoopPassIsr ==
    /\ pc = "idle"
    /\ step' = "LoopPass"
    /\ wr' = <<>>
    /\ sent_gcyc' = -1
    /\ IF rx = <<>>
       THEN /\ out' = <<Tok("READY")>>
            /\ UNCHANGED <<pc, field, rx>>
       ELSE IF ~HeaderOk(Head(rx))
       THEN /\ rx' = Tail(rx)
            /\ out' = <<Tok("READY"), Tok("ERROR")>>
            /\ UNCHANGED <<pc, field>>
       ELSE /\ rx' = Tail(rx)
            /\ out' = <<Tok("READY")>>
            /\ pc' = "parse"
            /\ field' = 1
    /\ UNCHANGED <<sends, level, elapsed_cycle_time, cycle_index,
                   num_input_pins, input_pins, previous_input_pin_states, loc,
                   step_index, finished_wrap_up, random_bit,
                   input_log_buffer_index, input_log, wu_i, attached>>
    /\ UNCHANGED <<pollHist, azVars, parseVars, hostVars>>

\* acquisitionLoop of part_002 up to the while loop (part_002:174-201)
AcqStartIsr ==
    /\ out' = <<Tok("RECEIVED")>>
    /\ wr' = [i \in 1..num_input_pins |-> PinCall("pinModeIn", input_pins[i], 0)]
             \o [i \in 1..loc.num_state_changes |->
                    PinCall("pinModeOut", loc.state_change_pins[i], 0)]
             \o [i \in 1..Len(loc.random_output_pins) |->
                    PinCall("pinModeOut", loc.random_output_pins[i], 0)]
    /\ attached' = attached \cup {input_pins[i] : i \in 1..num_input_pins}
    /\ cycle_index' = 0
    /\ step_index' = 0
    /\ finished_wrap_up' = FALSE
    /\ random_bit' = 0
    /\ elapsed_cycle_time' = 0
    /\ pc' = "run"
    /\ field' = 0

\* one readStringUntil('\n') of loop(); after the eighth, the footer is read
\* with Serial.read(), which returns -1 when the buffer is empty
ConsumeIsr(line, rest) ==
    /\ step' = "ReadField"
    /\ sent_gcyc' = -1
    /\ IF field < 8
       THEN /\ rx' = rest
            /\ pc' = "parse"
            /\ field' = field + 1
            /\ out' = <<>>
            /\ wr' = <<>>
            /\ IF field = 3
               THEN LET parsed == parseLine(line, MAX_INPUT_PINS)
                    IN  /\ input_pins' = StoreParsed(input_pins, parsed)
                        /\ num_input_pins' = StoreCount(num_input_pins, parsed)
                        /\ loc' = loc
               ELSE /\ UNCHANGED <<input_pins, num_input_pins>>
                    /\ CASE field = 1 ->
                              loc' = [loc EXCEPT !.num_cycles = Narrow(strtoul(line, 1), 0)]
                         [] field = 2 ->
                              loc' = [loc EXCEPT !.cycle_duration = Narrow(strtoul(line, 1), 0)]
                         [] field = 4 ->
                              loc' = [loc EXCEPT !.random_output_pins =
                                          parseLine(line, MAX_RANDOM_OUTPUT_PINS)]
                         [] field = 5 ->
                              loc' = [loc EXCEPT !.cycles_per_random_update =
                                          Narrow(strtoul(line, 1), 0)]
                         [] field = 6 ->
                              LET parsed == parseLine(line, MAX_OUTPUT_STATE_CHANGES)
                              IN  loc' = [loc EXCEPT !.state_change_times = parsed,
                                                     !.num_state_changes = Len(parsed)]
                         [] field = 7 ->
                              LET parsed == parseLine(line, MAX_OUTPUT_STATE_CHANGES)
                              IN  \E a \in FillSet(StoreParsed(loc.state_change_pins, parsed),
                                                   Len(parsed) + 1, loc.num_state_changes) :
                                      loc' = [loc EXCEPT !.state_change_pins = a,
                                                         !.n_pins = Len(parsed)]
            /\ UNCHANGED <<elapsed_cycle_time, cycle_index, step_index,
                           finished_wrap_up, random_bit, attached>>
       ELSE /\ rx' = IF rest = <<>> THEN <<>> ELSE Tail(rest)
            /\ UNCHANGED <<input_pins, num_input_pins>>
            /\ LET parsed == parseLine(line, MAX_OUTPUT_STATE_CHANGES)
                   lastChar == IF rest = <<>> THEN -1 ELSE Head(rest)
               IN  \E a \in FillSet(StoreParsed(loc.state_change_states, parsed),
                                    Len(parsed) + 1, loc.num_state_changes) :
                     IF ~FooterOk(lastChar)
                     THEN /\ out' = <<Tok("ERROR")>>
                          /\ wr' = <<>>
                          /\ pc' = "idle"
                          /\ field' = 0
                          /\ loc' = NoLoc(loc.state_change_pins, a)
                          /\ UNCHANGED <<elapsed_cycle_time, cycle_index, step_index,
                                         finished_wrap_up, random_bit, attached>>
                     ELSE /\ loc' = [loc EXCEPT !.state_change_states = a,
                                                !.n_states = Len(parsed)]
                          /\ AcqStartIsr
    /\ UNCHANGED <<sends, level, previous_input_pin_states,
                   input_log_buffer_index, input_log, wu_i>>
    /\ UNCHANGED <<pollHist, azVars, parseVars, hostVars>>

ReadLineIsr ==
    /\ pc = "parse"
    /\ HasNL(rx)
    /\ LET k == FirstNL(rx)
       IN  ConsumeIsr(SubSeq(rx, 1, k - 1), SubSeq(rx, k + 1, Len(rx)))

ReadTimeoutIsr ==
    /\ pc = "parse"
    /\ ~HasNL(rx)
    /\ ConsumeIsr(rx, <<>>)

\* acquisitionLoop returns to loop(), which returns
LeaveRunIsr ==
    /\ pc' = "idle"
    /\ loc' = LeaveLoop
    /\ step_index' = 0
    /\ finished_wrap_up' = FALSE
    /\ random_bit' = 0

\* one pass of the while loop (part_002:204-259) up to the branch taken; the
\* wrap-up branch continues in WuSend and WuReset
IsrIter ==
    /\ pc = "run"
    /\ cycle_index < loc.num_cycles
    /\ step' = "IsrIter"
    /\ out' = <<>>
    /\ sent_gcyc' = -1
    /\ IF step_index < loc.num_state_changes
       THEN /\ IF TimeReached(elapsed_cycle_time, loc.state_change_times[step_index + 1])
               THEN /\ wr' = <<PinCall("write", loc.state_change_pins[step_index + 1],
                                       loc.state_change_states[step_index + 1])>>
                    /\ step_index' = step_index + 1
               ELSE /\ wr' = <<>>
                    /\ step_index' = step_index
            /\ UNCHANGED <<pc, wu_i, finished_wrap_up, cycle_index, elapsed_cycle_time>>
       ELSE IF ~finished_wrap_up
       THEN /\ pc' = "wu_send"
            /\ wu_i' = 0
            /\ wr' = <<>>
            /\ UNCHANGED <<step_index, finished_wrap_up, cycle_index, elapsed_cycle_time>>
       ELSE IF BoundaryDue(elapsed_cycle_time, loc.cycle_duration)
       THEN /\ step_index' = 0
            /\ cycle_index' = cycle_index + 1
            /\ finished_wrap_up' = FALSE
            /\ elapsed_cycle_time' = CarryTimer(elapsed_cycle_time, loc.cycle_duration)
            /\ wr' = <<>>
            /\ UNCHANGED <<pc, wu_i>>
       ELSE /\ wr' = <<>>
            /\ UNCHANGED <<pc, wu_i, step_index, finished_wrap_up, cycle_index,
                           elapsed_cycle_time>>
    /\ UNCHANGED <<field, rx, sends, level, num_input_pins, input_pins,
                   previous_input_pin_states, loc, random_bit,
                   input_log_buffer_index, input_log, attached>>
    /\ UNCHANGED <<pollHist, azVars, parseVars, hostVars>>

\* the send loop of the wrap-up (part_002:219-226): the test of
\* i < input_log_buffer_index and, when it holds, one record
WuSend ==
    /\ pc = "wu_send"
    /\ step' = "WuSend"
    /\ wr' = <<>>
    /\ IF wu_i < input_log_buffer_index
       THEN /\ out' = <<Report(input_log[wu_i + 1].pin, input_log[wu_i + 1].state,
                               input_log[wu_i + 1].time, cycle_index, "log")>>
            /\ sent_gcyc' = input_log[wu_i + 1].gcyc
            /\ wu_i' = wu_i + 1
            /\ pc' = "wu_send"
       ELSE /\ out' = <<>>
            /\ sent_gcyc' = -1
            /\ wu_i' = wu_i
            /\ pc' = "wu_reset"
    /\ UNCHANGED <<field, rx, sends, level, elapsed_cycle_time, cycle_index,
                   num_input_pins, input_pins, previous_input_pin_states, loc,
                   step_index, finished_wrap_up, random_bit,
                   input_log_buffer_index, input_log, attached>>
    /\ UNCHANGED <<pollHist, azVars, parseVars, hostVars>>

\* the rest of the wrap-up (part_002:227-249): the index is reset, the random
\* bit is updated, the interrupt byte is looked for
WuReset ==
    /\ pc = "wu_reset"
    /\ step' = "WuReset"
    /\ sent_gcyc' = -1
    /\ input_log_buffer_index' = 0
    /\ input_log' = <<>>
    /\ wu_i' = 0
    /\ \E due \in RandomDue(cycle_index, loc.cycles_per_random_update) :
         \E bit \in IF due THEN {0, 1} ELSE {random_bit} :
            /\ wr' = IF due
                     THEN [i \in 1..Len(loc.random_output_pins) |->
                              PinCall("write", loc.random_output_pins[i], bit)]
                     ELSE <<>>
            /\ IF rx # <<>> /\ IsInterrupt(Head(rx))
               THEN /\ rx' = Tail(rx)
                    /\ out' = <<Tok("INTERRUPTED")>>
                    /\ LeaveRunIsr
               ELSE /\ rx' = IF rx = <<>> THEN rx ELSE Tail(rx)
                    /\ out' = <<>>
                    /\ random_bit' = bit
                    /\ finished_wrap_up' = TRUE
                    /\ pc' = "run"
                    /\ UNCHANGED <<loc, step_index>>
    /\ UNCHANGED <<field, sends, level, elapsed_cycle_time, cycle_index,
                   num_input_pins, input_pins, previous_input_pin_states, attached>>
    /\ UNCHANGED <<pollHist, azVars, parseVars, hostVars>>

IsrFinish ==
    /\ pc = "run"
    /\ ~(cycle_index < loc.num_cycles)
    /\ step' = "IsrFinish"
    /\ out' = <<Tok("F")>>
    /\ wr' = <<>>
    /\ sent_gcyc' = -1
    /\ LeaveRunIsr
    /\ UNCHANGED <<field, rx, sends, level, elapsed_cycle_time, cycle_index,
                   num_input_pins, input_pins, previous_input_pin_states,
                   input_log_buffer_index, input_log, wu_i, attached>>
    /\ UNCHANGED <<pollHist, azVars, parseVars, hostVars>>

InitIsr == InitCommon

NextIsr ==
    \/ \E c \in HostChunksIsr : HostSendIsr(c)
    \/ TickIsr
    \/ \E p \in InPins : PinChangeIsr(p)
    \/ LoopPassIsr
    \/ ReadLineIsr
    \/ ReadTimeoutIsr
    \/ IsrIter
    \/ WuSend
    \/ WuReset
    \/ IsrFinish

SpecIsr == InitIsr /\ [][NextIsr]_vars

(***************************************************************************)
(* Azure firmware (src/unnamed/part_001): the host, the timers, loop() and *)
(* runAcquisition.                                                         *)
(***************************************************************************)
\* chunks the host sends to the Azure firmware in one behaviour
MaxSendsAz == 3
\* an iteration of the while loop starts at most this long after a pulse
\* edge falls due (the duration of one iteration)
MaxLate == 1

\* the four bytes of a long, least significant first
LongToBytes(n) ==
    IF n >= 0
    THEN [k \in 1..4 |-> (n \div 256 ^ (k - 1)) % 256]
    ELSE [k \in 1..4 |-> 255 - (((-(n + 1)) \div 256 ^ (k - 1)) % 256)]

\* readLongFromSerial: u.b[0..3] read back as a 32-bit long
readLongFromSerial(b) ==
    b[1] + 256 * b[2] + 65536 * b[3]
        + 16777216 * (IF b[4] >= 128 THEN b[4] - 256 ELSE b[4])

\* the eight bytes of a request: num_cycles, then inv_framerate
Request(n, inv) == LongToBytes(n) \o LongToBytes(inv)

\* the requests of the model, <<num_cycles, inv_framerate>>: supported
\* framerates and an unsupported one
AzRequests == {<<3, 16667>>, <<2, 33333>>, <<0, 16667>>, <<2, 12345>>}
AzChunks == {Request(r[1], r[2]) : r \in AzRequests} \cup {<<CharX>>}

\* an elapsedMicros reading above every threshold the firmware compares it
\* with is kept at TimerSat
TimerSat == 2 * AZURE_INV_RATE_USEC

Sat(t) == IF t > TimerSat THEN TimerSat ELSE t

AzEnvStep == /\ az_out' = <<>>
             /\ az_wr' = <<>>
             /\ az_step' = "env"

HostSendAz(c) ==
    /\ az_sends < MaxSendsAz
    /\ az_sends' = az_sends + 1
    /\ az_rx' = az_rx \o c
    /\ AzEnvStep
    /\ UNCHANGED <<variant, az_pc, num_cycles, inv_framerate, ok_framerate,
                   num_elements, basler_frame_times, current_cycle,
                   previous_pulse, basler_frame_timer, previous_basler_trigger,
                   current_basler_frame_idx, azure_trigger_state,
                   basler_trigger_state, basler_ir_state, basler_await_azure,
                   done, pin_level, must_iter, run_clock, pulses, hi_time, brk,
                   fired, total_fired>>
    /\ UNCHANGED <<serVars, parseVars, hostVars>>

(***************************************************************************)
(* The conditions of azure_pulse_logic and basler_pulse_logic.             *)
(***************************************************************************)
\* part_001:167
PulseDue(state, t) == state = 0 /\ t >= AZURE_INV_RATE_USEC

\* part_001:193
PulseOver(state, t) == state = 1 /\ t >= AZURE_TRIG_WIDTH_USEC

\* part_001:176  previous_pulse = previous_pulse - AZURE_INV_RATE_USEC
CarryPulseBad(t) == 0

CarryPulse(t) == t - AZURE_INV_RATE_USEC

\* basler_frame_timer >= baslerFrameTimes[idx]; an index outside the array
\* reads whatever lies there: either outcome
FrameTimeReached(t, table, idx) ==
    IF idx >= 0 /\ idx < Len(table) THEN {t >= table[idx + 1]}
    ELSE {TRUE, FALSE}

\* part_001:370, 418
TrigDueBad(state, reached, await) == state = 0 /\ reached

TrigDue(state, reached, await) == state = 0 /\ reached /\ await = 0

\* part_001:400, 446
TrigOver(state, t) == state = 1 /\ t >= BASLER_TRIG_WIDTH_USEC

\* part_001:406, 453
IrOverBad(t, ir) == ir = 1

IrOver(t, ir) == t >= BASLER_IR_PULSE_WIDTH_USEC /\ ir = 1

\* part_001:390, 436  the else branch of idx < num_elements - 1
LastFrame(idx, n) == ~(idx < n - 1)

\* part_001:497  current_cycle < num_cycles, compared as unsigned long: a
\* negative num_cycles is above every count
CycleLess(cc, n) == IF n < 0 THEN TRUE ELSE cc < n

PinWrite(p, v) == [pin |-> p, val |-> v]

TrigPin(g) == IF g = "TOP" THEN "trig_TOP" ELSE "trig_BOTTOM"

IrPin(g) == IF g = "TOP" THEN "ir_TOP" ELSE "ir_BOTTOM"

\* the pin levels after the digitalWrite calls w, in order
RECURSIVE ApplyWrites(_, _)
ApplyWrites(lv, w) ==
    IF w = <<>> THEN lv
    ELSE ApplyWrites([lv EXCEPT ![Head(w).pin] = Head(w).val], Tail(w))

(***************************************************************************)
(* Time.  The while loop of runAcquisition spins; an iteration that finds  *)
(* no condition true and no byte waiting changes nothing.  TickAz lets     *)
(* time pass up to the next instant at which a condition becomes true and  *)
(* up to MaxLate beyond it; the iteration that follows sees those timer    *)
(* readings.                                                               *)
(***************************************************************************)
Wait(threshold, t) == IF t >= threshold THEN 0 ELSE threshold - t

Waits ==
    {IF azure_trigger_state = 0
     THEN Wait(AZURE_INV_RATE_USEC, previous_pulse)
     ELSE Wait(AZURE_TRIG_WIDTH_USEC, previous_pulse)}
    \cup {Wait(basler_frame_times[g][current_basler_frame_idx[g] + 1],
               basler_frame_timer) :
            g \in {h \in Groups : /\ basler_trigger_state[h] = 0
                                  /\ basler_await_azure[h] = 0
                                  /\ current_basler_frame_idx[h] >= 0
                                  /\ current_basler_frame_idx[h]
                                         < Len(basler_frame_times[h])}}
    \cup {Wait(BASLER_TRIG_WIDTH_USEC, previous_basler_trigger[g]) :
            g \in {h \in Groups : basler_trigger_state[h] = 1}}
    \cup {Wait(BASLER_IR_PULSE_WIDTH_USEC, previous_basler_trigger[g]) :
            g \in {h \in Groups : basler_ir_state[h] = 1}}

NextDue == CHOOSE d \in Waits : \A e \in Waits : d <= e

TickAz(late) ==
    /\ az_pc = "run"
    /\ ~must_iter
    /\ LET d == NextDue + late
       IN  /\ d > 0
           /\ previous_pulse' = Sat(previous_pulse + d)
           /\ basler_frame_timer' = Sat(basler_frame_timer + d)
           /\ previous_basler_trigger' =
                  [g \in Groups |-> Sat(previous_basler_trigger[g] + d)]
           /\ run_clock' = run_clock + d
           /\ hi_time' = IF hi_time < 0 THEN hi_time ELSE Sat(hi_time + d)
    /\ must_iter' = TRUE
    /\ AzEnvStep
    /\ UNCHANGED <<variant, az_pc, az_rx, az_sends, num_cycles, inv_framerate,
                   ok_framerate, num_elements, basler_frame_times,
                   current_cycle, current_basler_frame_idx,
                   azure_trigger_state, basler_trigger_state, basler_ir_state,
                   basler_await_azure, done, pin_level, pulses, brk, fired, total_fired>>
    /\ UNCHANGED <<serVars, parseVars, hostVars>>

(***************************************************************************)
(* One pass of loop() up to the while loop of runAcquisition (part_001:    *)
(* 565-657, 489-497).  The delay(1000) takes every timer past TimerSat.    *)
(***************************************************************************)
LoopPassAz ==
    /\ az_pc = "idle"
    /\ LET n == readLongFromSerial(SubSeq(az_rx, 1, 4))
           inv == readLongFromSerial(SubSeq(az_rx, 5, 8))
           ok == check_requested_framerate(inv)
           ne == getNumFrameTimeElements(inv)
           enter == CycleLess(0, n)
       IN  IF Len(az_rx) = 8
           THEN /\ num_cycles' = n
                /\ inv_framerate' = inv
                /\ ok_framerate' = FALSE
                /\ IF ok
                   THEN /\ az_out' = <<"Waiting...", "Inv framerate", "OK? 1",
                                       "Start", "Num cycles:", "Num elements:">>
                                     \o (IF enter THEN <<>> ELSE <<"Finished">>)
                        /\ num_elements' = IF enter THEN ne ELSE 0
                        /\ basler_frame_times' =
                               IF enter
                               THEN [g \in Groups |->
                                       getBaslerFrameTimes(inv, NUM_AZURES,
                                                           CamStr(g))]
                               ELSE NoTables
                        /\ current_cycle' = 0
                        /\ previous_pulse' = 0
                        /\ basler_await_azure' = BothGroups(1)
                        /\ az_pc' = IF enter THEN "run" ELSE "idle"
                        /\ done' = IF enter THEN done ELSE 1
                        /\ run_clock' = 0
                        /\ pulses' = 0
                        /\ brk' = FALSE
                        /\ fired' = BothGroups(0)
                        /\ total_fired' = BothGroups(0)
                   ELSE /\ az_out' = <<"Waiting...", "Inv framerate", "OK? 0">>
                        /\ previous_pulse' = Sat(previous_pulse + LOOP_DELAY_USEC)
                        /\ UNCHANGED <<num_elements, basler_frame_times,
                                       current_cycle, basler_await_azure,
                                       az_pc, done, run_clock, pulses, brk,
                                       fired, total_fired>>
                /\ az_rx' = <<>>
           ELSE /\ az_out' = <<"Waiting...">>
                /\ az_rx' = IF Len(az_rx) > 8 THEN <<>> ELSE az_rx
                /\ previous_pulse' = Sat(previous_pulse + LOOP_DELAY_USEC)
                /\ UNCHANGED <<num_cycles, inv_framerate, ok_framerate,
                               num_elements, basler_frame_times, current_cycle,
                               basler_await_azure, az_pc, done, run_clock,
                               pulses, brk, fired, total_fired>>
    /\ basler_frame_timer' = Sat(basler_frame_timer + LOOP_DELAY_USEC)
    /\ previous_basler_trigger' =
           [g \in Groups |-> Sat(previous_basler_trigger[g] + LOOP_DELAY_USEC)]
    /\ hi_time' = IF hi_time < 0 THEN hi_time ELSE Sat(hi_time + LOOP_DELAY_USEC)
    /\ az_wr' = <<>>
    /\ az_step' = "LoopPassAz"
    /\ must_iter' = FALSE
    /\ UNCHANGED <<variant, az_sends, current_basler_frame_idx,
                   azure_trigger_state, basler_trigger_state, basler_ir_state,
                   pin_level>>
    /\ UNCHANGED <<serVars, parseVars, hostVars>>

(***************************************************************************)
(* One iteration of the while loop of runAcquisition (part_001:497-517):   *)
(* azure_pulse_logic, basler_pulse_logic for the top and then the bottom   *)
(* group, the interrupt check; when the loop ends, the rest of             *)
(* runAcquisition and of loop() (part_001:518, 645-646).                   *)
(* sinceInterruptCheck is never reset and loop() has waited 1000 ms before *)
(* any run, so the check of part_001:507 is true in every iteration.       *)
(***************************************************************************)
AzIter ==
    /\ az_pc = "run"
    /\ LET startA == PulseDue(azure_trigger_state, previous_pulse)
           endA == ~startA /\ PulseOver(azure_trigger_state, previous_pulse)
           started_frame == IF startA THEN 1 ELSE 0
           bft == IF startA THEN 0 ELSE basler_frame_timer
           idx0 == IF startA THEN BothGroups(0) ELSE current_basler_frame_idx
           aw0 == IF startA THEN BothGroups(0) ELSE basler_await_azure
           cc == current_cycle + started_frame
           wrA == IF startA THEN <<PinWrite("azure", 1)>>
                  ELSE IF endA THEN <<PinWrite("azure", 0)>> ELSE <<>>
       IN  \E reached \in [Groups -> BOOLEAN] :
             /\ \A g \in Groups :
                   reached[g] \in FrameTimeReached(bft, basler_frame_times[g],
                                                   idx0[g])
             /\ LET startG(g) == TrigDue(basler_trigger_state[g], reached[g],
                                         aw0[g])
                    endG(g) == /\ ~startG(g)
                               /\ TrigOver(basler_trigger_state[g],
                                           previous_basler_trigger[g])
                    pbt(g) == IF startG(g) THEN 0
                              ELSE previous_basler_trigger[g]
                    ir(g) == IF startG(g) THEN 1 ELSE basler_ir_state[g]
                    irOff(g) == IrOver(pbt(g), ir(g))
                    last(g) == LastFrame(idx0[g], num_elements)
                    wrG(g) ==
                        (IF startG(g)
                         THEN <<PinWrite(TrigPin(g), 1), PinWrite(IrPin(g), 1)>>
                         ELSE IF endG(g) THEN <<PinWrite(TrigPin(g), 0)>>
                         ELSE <<>>)
                        \o (IF irOff(g) THEN <<PinWrite(IrPin(g), 0)>>
                            ELSE <<>>)
                    writes == wrA \o wrG("TOP") \o wrG("BOTTOM")
                    hasByte == az_rx # <<>>
                    leave == hasByte \/ ~CycleLess(cc, num_cycles)
                IN  /\ azure_trigger_state' =
                           IF startA THEN 1 ELSE IF endA THEN 0
                           ELSE azure_trigger_state
                    /\ previous_pulse' =
                           IF startA THEN CarryPulse(previous_pulse)
                           ELSE previous_pulse
                    /\ basler_frame_timer' = bft
                    /\ current_cycle' = cc
                    /\ basler_trigger_state' =
                           [g \in Groups |->
                              IF startG(g) THEN 1 ELSE IF endG(g) THEN 0
                              ELSE basler_trigger_state[g]]
                    /\ basler_ir_state' =
                           [g \in Groups |-> IF irOff(g) THEN 0 ELSE ir(g)]
                    /\ previous_basler_trigger' = [g \in Groups |-> pbt(g)]
                    /\ current_basler_frame_idx' =
                           [g \in Groups |->
                              IF startG(g)
                              THEN (IF last(g) THEN 0 ELSE idx0[g] + 1)
                              ELSE idx0[g]]
                    /\ basler_await_azure' =
                           [g \in Groups |->
                              IF startG(g) /\ last(g) THEN 1 ELSE aw0[g]]
                    /\ pin_level' = ApplyWrites(pin_level, writes)
                    /\ az_wr' = writes
                    /\ az_out' = (IF hasByte THEN <<"Breaking!">> ELSE <<>>)
                                  \o (IF leave THEN <<"Finished">> ELSE <<>>)
                    /\ az_rx' = IF leave THEN <<>> ELSE az_rx
                    /\ az_pc' = IF leave THEN "idle" ELSE "run"
                    /\ done' = IF leave THEN 1 ELSE done
                    /\ num_elements' = IF leave THEN 0 ELSE num_elements
                    /\ basler_frame_times' =
                           IF leave THEN NoTables ELSE basler_frame_times
                    /\ pulses' = pulses + started_frame
                    /\ hi_time' = IF startA THEN 0 ELSE IF endA THEN -1
                                  ELSE hi_time
                    /\ brk' = hasByte
                    /\ fired' =
                           [g \in Groups |->
                              (IF startA THEN 0 ELSE fired[g])
                                  + (IF startG(g) THEN 1 ELSE 0)]
                    /\ total_fired' =
                           [g \in Groups |->
                              total_fired[g] + (IF startG(g) THEN 1 ELSE 0)]
    /\ must_iter' = FALSE
    /\ az_step' = "AzIter"
    /\ UNCHANGED <<variant, az_sends, num_cycles, inv_framerate, ok_framerate,
                   run_clock>>
    /\ UNCHANGED <<serVars, parseVars, hostVars>>

InitAzure ==
    /\ InitCommon
    /\ level = ZeroLevel

NextAzure ==
    \/ \E c \in AzChunks : HostSendAz(c)
    \/ \E late \in 0..MaxLate : TickAz(late)
    \/ LoopPassAz
    \/ AzIter

SpecAzure == InitAzure /\ [][NextAzure]_vars

(***************************************************************************)
(* The table computation of loop() on its own, for each firmware file and  *)
(* each requested inverse framerate: the two calls of getBaslerFrameTimes  *)
(* and the call of getNumFrameTimeElements (part_001:611-615; 120fps       *)
(* variant 542-545; 90fps variant 378-388).                                *)
(***************************************************************************)
Variants == {"azure", "fps90", "old120"}

\* the inverse framerates requested: the supported ones and others
TableRates == {6667, 8333, 11111, 16667, 33333, 0, 5000, 10000, 12345, 66667}

TabUnchanged ==
    /\ az_out' = <<>>
    /\ az_wr' = <<>>
    /\ UNCHANGED <<variant, az_rx, az_sends, num_cycles, inv_framerate,
                   ok_framerate, current_cycle, previous_pulse,
                   basler_frame_timer, previous_basler_trigger,
                   current_basler_frame_idx, azure_trigger_state,
                   basler_trigger_state, basler_ir_state, basler_await_azure,
                   done, pin_level, must_iter, run_clock, pulses, hi_time, brk,
                   fired, total_fired>>
    /\ UNCHANGED <<serVars, parseVars, hostVars>>

TabTop ==
    /\ az_pc = "top"
    /\ basler_frame_times' =
           [basler_frame_times EXCEPT
              !["TOP"] = FrameTimesOf(variant, inv_framerate, CamStr("TOP"))]
    /\ az_pc' = "bottom"
    /\ az_step' = "TabTop"
    /\ UNCHANGED num_elements
    /\ TabUnchanged

TabBottom ==
    /\ az_pc = "bottom"
    /\ basler_frame_times' =
           [basler_frame_times EXCEPT
              !["BOTTOM"] = FrameTimesOf(variant, inv_framerate,
                                        CamStr("BOTTOM"))]
    /\ az_pc' = "count"
    /\ az_step' = "TabBottom"
    /\ UNCHANGED num_elements
    /\ TabUnchanged

TabCount ==
    /\ az_pc = "count"
    /\ num_elements' = NumElementsOf(variant, inv_framerate)
    /\ az_pc' = "ready"
    /\ az_step' = "TabCount"
    /\ UNCHANGED basler_frame_times
    /\ TabUnchanged

InitTables ==
    /\ InitSer
    /\ level = ZeroLevel
    /\ ParseOff
    /\ \E v \in Variants, inv \in TableRates : AzBoot(v, "top", inv)
    /\ HostBoot

NextTables ==
    \/ TabTop
    \/ TabBottom
    \/ TabCount

SpecTables == InitTables /\ [][NextTables]_vars

(***************************************************************************)
(* Properties of the polling firmware (SpecPoll).                          *)
(***************************************************************************)
Range(f) == {f[k] : k \in 1..Len(f)}

\* C1: loop() sends RECEIVED, enters acquisitionLoop and touches a pin only
\* in a pass whose first byte was STX and whose footer line began with ETX.
C1_StartOnlyOnStxEtx ==
    (pc = "run" \/ "RECEIVED" \in Toks(out) \/ wr # <<>>)
        => (first_byte = STX /\ footer_char = ETX)

C1_Witness ==
    /\ "RECEIVED" \in Toks(out)
    /\ wr # <<>>
    /\ first_byte = STX
    /\ footer_char = ETX

C2_Inv ==
    /\ term \in {"none", "I", "F"}
    /\ pc = "run" => term = "none"
    /\ (step \in {"AcqIter", "AcqFinish"} /\ pc = "idle") => term \in {"I", "F"}
    /\ "INTERRUPTED" \in Toks(out) =>
          /\ saw_I
          /\ term = "I"
          /\ pc = "idle"
          /\ wr = <<>>
          /\ out[Len(out)].tok = "INTERRUPTED"
          /\ \A k \in 1..Len(out) : out[k].src # "rand"
    /\ "F" \in Toks(out) => (~saw_I /\ term = "F" /\ out = <<Tok("F")>>)

C2_Act ==
    /\ "F" \in Toks(out') => (pc = "run" /\ cycle_index = loc.num_cycles)
    /\ "INTERRUPTED" \in Toks(out') =>
          (pc = "run" /\ cycle_index < loc.num_cycles /\ rx # <<>>
           /\ Head(rx) = CharI /\ cycle_index' = cycle_index)

\* C2: a run has one terminal reply: INTERRUPTED when a wrap-up read 'I'
\* (nothing is written or reported after it), otherwise F, sent when
\* cycle_index has reached num_cycles; never both.
C2_OneTerminalReply == []C2_Inv /\ [][C2_Act]_vars

C2_Witness == "INTERRUPTED" \in Toks(out) /\ cycle_index = 1 /\ term = "I"

\* C3 as claimed: a run during which the host sent 'I' is not answered F.
C3_InterruptAlwaysObserved == ~(i_in_run /\ "F" \in Toks(out))

C4_Inv ==
    pc = "run" =>
        /\ cycle_index * loc.cycle_duration + elapsed_cycle_time = run_time
        /\ cycle_index * loc.cycle_duration <= run_time

C4_Act ==
    /\ (pc # "run" /\ pc' = "run") => cycle_index' = 0
    /\ (pc = "run" /\ cycle_index' # cycle_index) =>
          /\ cycle_index' = cycle_index + 1
          /\ elapsed_cycle_time >= loc.cycle_duration
          /\ elapsed_cycle_time' = elapsed_cycle_time - loc.cycle_duration
          /\ finished_wrap_up
          /\ ~(step_index < loc.num_state_changes)

\* C4: cycle_index starts at 0 and grows by 1 only in the boundary branch,
\* which takes cycle_duration off the timer; cycle_index * cycle_duration +
\* elapsed_cycle_time is the time since the timer was zeroed, so the k-th
\* boundary is not before k * cycle_duration.
C4_CarriedRemainder == []C4_Inv /\ [][C4_Act]_vars

\* just after a boundary that was late
C4_Witness ==
    /\ pc = "run"
    /\ step = "AcqIter"
    /\ cycle_index >= 1
    /\ step_index = 0
    /\ elapsed_cycle_time > 0
    /\ run_time > cycle_index * loc.cycle_duration

NoGlitch == \A p \in InPins : unrep[p] <= 1

RECURSIVE ExpectedEdges(_)
ExpectedEdges(n) ==
    IF n = 0 THEN <<>>
    ELSE ExpectedEdges(n - 1)
         \o (IF input_pins[n] \in InPins /\ unrep[input_pins[n]] = 1
             THEN <<[tok |-> "report", pin |-> input_pins[n],
                     state |-> level[input_pins[n]], time |-> elapsed_cycle_time,
                     cycle |-> cycle_index, src |-> "edge"]>>
             ELSE <<>>)

IsEdge(r) == r.src = "edge"

C5_Act ==
    (step' = "AcqIter" /\ NoGlitch) =>
        SelectSeq(out', IsEdge) = ExpectedEdges(num_input_pins)

\* C5: when no monitored pin changes twice between two polls, a poll reports
\* exactly the pins that changed since the previous poll, each once, with
\* the new level, the timer reading and the cycle index of the poll.
C5_EdgesReportedOnce == [][C5_Act]_vars

C5_Witness ==
    /\ step = "AcqIter"
    /\ \E k \in 1..Len(out) : out[k].src = "edge" /\ out[k].cycle = 1 /\ out[k].time > 0

\* C8 as claimed: a pass whose first byte is not STX leaves the receive
\* buffer empty.
C8_RejectEmptiesBuffer ==
    [][(pc = "idle" /\ step' = "LoopPass" /\ rx # <<>> /\ Head(rx) # STX)
          => ("ERROR" \in Toks(out') /\ rx' = <<>>)]_vars

\* C9 as claimed: after a frame without footer, a well-formed frame costs no
\* further ERROR: one ERROR at most between the malformed frame and RECEIVED.
C9_NextFrameAccepted == err9 <= 1

\* C10 as claimed: no scheduled digitalWrite of an accepted command takes
\* its pin from an array element that its own frame did not write and that
\* holds a pin of the rejected frame.
C10_RejectedFrameDiscarded ==
    \A k \in 1..Len(wr) :
        (step = "AcqIter" /\ wr[k].op = "write")
            => ~(step_index > loc.n_pins /\ wr[k].pin \in Range(rej_pins))


(***************************************************************************)
(* Properties of the interrupt-driven firmware (SpecIsr).                  *)
(***************************************************************************)
\* C6 as claimed: when the wrap-up resets input_log_buffer_index, every
\* change that inputStateISR stored has been written to serial.
C6_StoredChangesAreSent ==
    [][step' = "WuReset" => wu_i = input_log_buffer_index]_vars

\* C7 as claimed: a record is sent with the index of the cycle in which the
\* ISR stored it.
C7_RecordCycleIsChangeCycle ==
    sent_gcyc # -1 => \A k \in 1..Len(out) : out[k].cycle = sent_gcyc


(***************************************************************************)
(* Properties of the Azure firmware (SpecAzure) and of the offset tables   *)
(* (SpecTables).                                                           *)
(***************************************************************************)
Written(p, v) == \E k \in 1..Len(az_wr) : az_wr[k] = PinWrite(p, v)

Printed(s) == \E k \in 1..Len(az_out) : az_out[k] = s

\* a run has just ended without having been interrupted
RunCompleted == Printed("Finished") /\ ~brk

\* C11: a run of N cycles that is not interrupted asserts the sync pin
\* exactly N times (never more while it runs); the k-th assertion is made no
\* earlier than k * AZURE_INV_RATE_USEC after previous_pulse was zeroed and
\* at most one loop iteration (MaxLate) later.
C11_SyncPulses ==
    /\ RunCompleted => pulses = num_cycles
    /\ (az_pc = "run" /\ num_cycles >= 0) => pulses < num_cycles
    /\ Written("azure", 1) =>
          /\ run_clock >= pulses * AZURE_INV_RATE_USEC
          /\ run_clock <= pulses * AZURE_INV_RATE_USEC + MaxLate

\* a run of three cycles has completed and its third pulse was late
C11_Witness ==
    /\ RunCompleted
    /\ Written("azure", 1)
    /\ pulses = 3
    /\ run_clock > 3 * AZURE_INV_RATE_USEC

\* C12 as claimed: the sync pin is driven LOW only after it has been HIGH for
\* AZURE_TRIG_WIDTH_USEC, and it is LOW whenever runAcquisition is not
\* running (every pulse of a run has been driven LOW when the run returns).
C12_PulseHeldThenLow ==
    /\ [](az_pc = "idle" => pin_level["azure"] = 0)
    /\ [][Written("azure", 0)' => hi_time >= AZURE_TRIG_WIDTH_USEC]_vars

C13_Group(g) ==
    /\ Written(TrigPin(g), 1)' =>
          /\ az_step' = "AzIter"
          /\ Written(IrPin(g), 1)'
          /\ pulses' = pulses
          /\ pulses >= 1
          /\ basler_await_azure[g] = 0
          /\ current_basler_frame_idx[g] < Len(basler_frame_times[g])
          /\ basler_frame_timer
                 >= basler_frame_times[g][current_basler_frame_idx[g] + 1]
          /\ fired[g] < num_elements
    /\ Written(IrPin(g), 1)' => Written(TrigPin(g), 1)'

\* C13: a step asserts a group's trigger pins only when the group was not
\* awaiting sync and basler_frame_timer had reached the offset at the
\* group's index, and it asserts the group's illumination pins too; no
\* trigger or illumination is asserted before the first sync pulse of a run
\* nor after the group has fired all its offsets of the sync cycle.
C13_TriggerOnlyWhenDue == [][\A g \in Groups : C13_Group(g)]_vars

\* the bottom group fires its second offset of a sync cycle
C13_Witness ==
    /\ Written("trig_BOTTOM", 1)
    /\ Written("ir_BOTTOM", 1)
    /\ fired["BOTTOM"] = 2
    /\ pulses >= 1

C14_Inv ==
    az_pc = "run" =>
        \A g \in Groups :
            /\ current_basler_frame_idx[g] >= 0
            /\ current_basler_frame_idx[g] <= num_elements - 1

C14_Act ==
    /\ pulses' = pulses + 1 =>
          \A g \in Groups :
              /\ basler_await_azure'[g] = 0
              /\ current_basler_frame_idx'[g] = 0
    /\ \A g \in Groups :
          Written(TrigPin(g), 1)' =>
              /\ current_basler_frame_idx[g] = fired[g]
              /\ fired[g] < num_elements
              /\ IF fired[g] = num_elements - 1
                 THEN basler_await_azure'[g] = 1
                 ELSE current_basler_frame_idx'[g] = fired[g] + 1

\* C14 as claimed: the start of a sync pulse zeroes both frame indices and
\* clears both await flags; a group then fires the offsets of its table in
\* index order from 0 and is awaiting sync after the last one; during a run
\* each frame index is within 0..num_elements-1.
C14_IndexOrder == []C14_Inv /\ [][C14_Act]_vars

C15_Inv ==
    \A g \in Groups :
        /\ basler_trigger_state[g] = 1 => basler_ir_state[g] = 1
        /\ pin_level[TrigPin(g)] = 1 => pin_level[IrPin(g)] = 1

C15_Act ==
    \A g \in Groups :
        Written(TrigPin(g), 1)' =>
            /\ basler_ir_state[g] = 0
            /\ pin_level[IrPin(g)] = 0

\* in every table the illumination of an offset ends before the next offset
\* of the sync cycle and before the first offset of the next sync cycle
C15_Gaps ==
    \A r \in Range(VALID_INV_FRAMERATES), g \in Groups :
        LET t == getBaslerFrameTimes(r, NUM_AZURES, CamStr(g))
        IN  /\ \A k \in 1..(Len(t) - 1) :
                  t[k] + BASLER_IR_PULSE_WIDTH_USEC < t[k + 1]
            /\ t[Len(t)] + BASLER_IR_PULSE_WIDTH_USEC
                   < AZURE_INV_RATE_USEC + t[1]

\* C15: for each group, trigger state 1 implies illumination state 1 (and
\* trigger pins HIGH imply illumination pins HIGH) after every call of
\* basler_pulse_logic, and the illumination has been driven LOW when the
\* group's next trigger is asserted.
C15_IrContainsTrigger == [](C15_Inv /\ C15_Gaps) /\ [][C15_Act]_vars

\* the top group fires its second offset; the illumination of the first one
\* has ended and that of the second has begun
C15_Witness ==
    /\ Written("trig_TOP", 1)
    /\ fired["TOP"] = 2
    /\ basler_trigger_state["TOP"] = 1
    /\ pin_level["ir_TOP"] = 1

StrictlyIncreasing(t) == \A k \in 1..(Len(t) - 1) : t[k] < t[k + 1]

\* C16: for every inverse framerate of VALID_INV_FRAMERATES and both groups
\* the table of getBaslerFrameTimes has num_elements entries, at least one,
\* is strictly increasing, and its last entry plus BASLER_TRIG_WIDTH_USEC is
\* less than AZURE_INV_RATE_USEC.
C16_TablesFitCycle ==
    (variant = "azure" /\ az_pc = "ready"
         /\ check_requested_framerate(inv_framerate)) =>
        \A g \in Groups :
            LET t == basler_frame_times[g]
            IN  /\ Len(t) = num_elements
                /\ Len(t) >= 1
                /\ StrictlyIncreasing(t)
                /\ t[Len(t)] + BASLER_TRIG_WIDTH_USEC < AZURE_INV_RATE_USEC

\* the five-entry tables of 6667 have been computed
C16_Witness ==
    /\ variant = "azure"
    /\ az_pc = "ready"
    /\ inv_framerate = 6667
    /\ Len(basler_frame_times["TOP"]) = 5
    /\ basler_frame_times["BOTTOM"][5] = 30238

\* C17 as claimed: in the 90fps variant every entry of the top and of the
\* bottom table is less than AZURE_INV_RATE_USEC.
C17_EntriesBelowCycle ==
    (variant = "fps90" /\ az_pc = "ready") =>
        \A g \in Groups :
            \A k \in 1..Len(basler_frame_times[g]) :
                basler_frame_times[g][k] < AZURE_INV_RATE_USEC

\* a pass of loop() that reads a request whose inverse framerate is not in
\* VALID_INV_FRAMERATES
RejectedPass ==
    /\ az_pc = "idle"
    /\ az_step' = "LoopPassAz"
    /\ Len(az_rx) = 8
    /\ ~check_requested_framerate(readLongFromSerial(SubSeq(az_rx, 5, 8)))

\* what such a pass leaves alone apart from the request globals
C18_NoSession ==
    /\ ~Printed("Start")'
    /\ ~Printed("Finished")'
    /\ az_pc' = "idle"
    /\ az_wr' = <<>>
    /\ UNCHANGED <<pin_level, ok_framerate, num_elements, basler_frame_times,
                   current_cycle, current_basler_frame_idx,
                   azure_trigger_state, basler_trigger_state, basler_ir_state,
                   basler_await_azure, done>>

\* C18 as claimed: a request with an unsupported inverse framerate starts no
\* session (no Start, no tables, no runAcquisition) and changes no output
\* pin and no variable of the firmware.
C18_RejectChangesNothing ==
    [][RejectedPass =>
          (C18_NoSession /\ UNCHANGED <<num_cycles, inv_framerate>>)]_vars

\* C19 as claimed: for 16667 the Azure firmware and the 120fps variant both
\* count 2 elements and build tables of exactly 2 offsets for each group.
C19_TwoOffsetsAt16667 ==
    (variant \in {"azure", "old120"} /\ inv_framerate = 16667
         /\ az_pc = "ready") =>
        /\ num_elements = 2
        /\ \A g \in Groups : Len(basler_frame_times[g]) = 2

\* C20: for every supported inverse framerate the bottom table of
\* getBaslerFrameTimes has as many entries as the top table and each entry
\* is the top entry at the same index plus
\* 2 * AZURE_INTERSUBFRAME_PERIOD_USEC.
C20_BottomIsTopPlusCompensation ==
    (variant = "azure" /\ az_pc \in {"count", "ready"}
         /\ check_requested_framerate(inv_framerate)) =>
        LET top == basler_frame_times["TOP"]
            bottom == basler_frame_times["BOTTOM"]
        IN  /\ Len(bottom) = Len(top)
            /\ Len(top) = getNumFrameTimeElements(inv_framerate)
            /\ \A k \in 1..Len(top) :
                  bottom[k] = top[k] + 2 * AZURE_INTERSUBFRAME_PERIOD_USEC

\* both four-entry tables of 8333 have been computed
C20_Witness ==
    /\ variant = "azure"
    /\ az_pc = "count"
    /\ inv_framerate = 8333
    /\ basler_frame_times["TOP"][4] = 24961
    /\ basler_frame_times["BOTTOM"][4] = 28111

(***************************************************************************)
(* Further properties of the polling firmware (SpecPoll).                  *)
(***************************************************************************)
\* the parameters of the running session: the arguments of acquisitionLoop
SessionParams == <<loc, input_pins, num_input_pins>>

C21_Act ==
    pc = "run" =>
        /\ pc' \in {"run", "idle"}
        /\ "RECEIVED" \notin Toks(out')
        /\ "READY" \notin Toks(out')
        /\ pc' = "run" => UNCHANGED SessionParams
        /\ (step' # "env" /\ rx' # rx) =>
              /\ step' = "AcqIter"
              /\ rx' = Tail(rx)
              /\ ~(step_index < loc.num_state_changes)
              /\ ~finished_wrap_up
              /\ wr' = <<>>
              /\ IF Head(rx) = CharI
                 THEN /\ pc' = "idle"
                      /\ out'[Len(out')] = Tok("INTERRUPTED")
                 ELSE /\ pc' = "run"
                      /\ finished_wrap_up'
                      /\ UNCHANGED <<cycle_index, step_index,
                                     elapsed_cycle_time, random_bit>>
                      /\ Toks(out') \subseteq {"report"}

\* C21: while a run is in progress no step starts another run or changes
\* the arguments of the run; a byte is taken from the receive buffer only by
\* the wrap-up of a cycle, and it either is 'I' and ends the run with
\* INTERRUPTED or is dropped while the wrap-up completes as it does with an
\* empty buffer.
C21_NoCommandDuringRun == [][C21_Act]_vars

\* the wrap-up of the second cycle has dropped the 'X' of <<'X', '\n'>> and
\* the run goes on
C21_Witness ==
    /\ pc = "run"
    /\ step = "AcqIter"
    /\ finished_wrap_up
    /\ rx = <<NL>>
    /\ cycle_index = 1

\* the reply grammar (READY (ERROR | RECEIVED report* (INTERRUPTED | F))?)*
\* as an automaton: "start" before a READY, "ready" after it, "run" after
\* RECEIVED
GramStep(q, tok) ==
    IF tok = "READY" /\ q \in {"start", "ready"} THEN "ready"
    ELSE IF tok = "ERROR" /\ q = "ready" THEN "start"
    ELSE IF tok = "RECEIVED" /\ q = "ready" THEN "run"
    ELSE IF tok = "report" /\ q = "run" THEN "run"
    ELSE IF tok \in {"INTERRUPTED", "F"} /\ q = "run" THEN "start"
    ELSE "bad"

RECURSIVE GramRun(_, _)
GramRun(q, o) == IF o = <<>> THEN q ELSE GramRun(GramStep(q, Head(o).tok), Tail(o))

\* the automaton states the tokens sent so far can have led to
GramAt(position) ==
    IF position = "run" THEN {"run"}
    ELSE IF position = "parse" THEN {"ready"}
    ELSE {"start", "ready"}

\* C22: the reply tokens form (READY (ERROR | RECEIVED report* (INTERRUPTED
\* | F))?)*: what a step writes continues the tokens written before it
\* within the grammar, so ERROR and RECEIVED follow the READY of their pass,
\* reports lie between RECEIVED and the terminal reply, and READY comes
\* first after a terminal reply.
C22_ReplyGrammar ==
    [][\A q \in GramAt(pc) : GramRun(q, out') \in GramAt(pc')]_vars

\* the READY of the pass that follows a run ended by F
C22_Witness ==
    /\ step = "LoopPass"
    /\ term = "F"
    /\ out = <<Tok("READY")>>

\* C23: with the clock advancing and the loops executing, a run that has
\* been accepted returns after F or INTERRUPTED, and loop() then writes
\* READY.
C23_RunTerminates ==
    /\ (pc = "run") ~> (pc = "idle" /\ term \in {"I", "F"})
    /\ (pc = "run") ~> (step = "LoopPass" /\ "READY" \in Toks(out))

\* a run of two cycles has returned after F
C23_Witness ==
    /\ pc = "idle"
    /\ step = "AcqFinish"
    /\ term = "F"
    /\ cycle_index = 2

\* C24 as claimed: an iteration of the while loop writes an edge report
\* only when no scheduled state change of the cycle is pending.
C24_ReportsOnlyWhenIdle ==
    [][(step' = "AcqIter" /\ \E k \in 1..Len(out') : out'[k].src = "edge")
          => ~(step_index < loc.num_state_changes)]_vars

(***************************************************************************)
(* Further properties of the interrupt-driven firmware (SpecIsr).          *)
(***************************************************************************)
\* a monitored pin whose level differs from the state the ISR last stored
UnloggedChange ==
    \E i \in 1..num_input_pins :
        /\ input_pins[i] \in attached
        /\ DigitalRead(input_pins[i]) # At0(previous_input_pin_states, i)

C25_Inv ==
    /\ input_log_buffer_index >= 0
    /\ input_log_buffer_index <= LogCap
    /\ Len(input_log) = input_log_buffer_index

C25_Act ==
    (level' # level) =>
        /\ Len(input_log') >= Len(input_log)
        /\ SubSeq(input_log', 1, Len(input_log)) = input_log
        /\ input_log_buffer_index = LogCap =>
              UNCHANGED <<input_log, input_log_buffer_index>>

\* C25: input_log_buffer_index stays within 0..MAX_INPUT_STATE_CHANGES and
\* the log holds no entry at or beyond MAX_INPUT_STATE_CHANGES; a run of
\* inputStateISR only appends, and with the buffer full it stores nothing
\* and leaves the stored entries as they are.
C25_LogBounded == []C25_Inv /\ [][C25_Act]_vars

\* the buffer is full and the ISR has just left a change of a monitored pin
\* unstored
C25_Witness ==
    /\ step = "env"
    /\ input_log_buffer_index = LogCap
    /\ UnloggedChange

(***************************************************************************)
(* One call of parseLine on its own (part_000:92-160): each overload, on   *)
(* comma-separated lists and on other strings, with maxNumbers from 0 to   *)
(* MaxParseCap, with and without a count pointer.  The output array is     *)
(* longer than maxNumbers and holds Marker in every element before the     *)
(* call.                                                                   *)
(***************************************************************************)
Marker == 99

ParseLists == {<<>>, <<7>>, <<1, 2>>, <<1, 2, 3>>, <<3, 2, 1, 0>>,
               <<65535, 70000>>, <<0, 0, 0, 0, 0>>}

\* "1,,2"  " 7,8"  "-1"  "5x"  "1,2,"  ","
OddStrings == {<<49, 44, 44, 50>>, <<32, 55, 44, 56>>, <<45, 49>>,
               <<53, 120>>, <<49, 44, 50, 44>>, <<44>>}

ParseInputs == {Csv(l) : l \in ParseLists} \cup OddStrings

InitParse ==
    /\ InitSer
    /\ level = ZeroLevel
    /\ AzBoot("azure", "idle", 0)
    /\ HostBoot
    /\ pl_pc = "call"
    /\ pl_input \in ParseInputs
    /\ pl_max \in 0..MaxParseCap
    /\ pl_has_count \in BOOLEAN
    /\ pl_output = [k \in 1..(MaxParseCap + 2) |-> Marker]
    /\ pl_count = Marker
    /\ pl_cfg = NoCfg

ParseReturn(parsed, overload) ==
    /\ pl_pc = "call"
    /\ pl_output' = StoreParsed(pl_output, parsed)
    /\ pl_count' = IF pl_has_count THEN StoreCount(pl_count, parsed)
                   ELSE pl_count
    /\ pl_pc' = overload
    /\ UNCHANGED <<pl_input, pl_max, pl_has_count, pl_cfg>>
    /\ UNCHANGED <<serVars, azVars, hostVars>>

\* parseLine(const char*, unsigned long*, int, int*)
ParseCallLong == ParseReturn(parseLine(pl_input, pl_max), "long")

\* parseLine(const char*, uint16_t*, int, int*)
ParseCall16 == ParseReturn(parseLine16(pl_input, pl_max), "u16")

NextParse ==
    \/ ParseCallLong
    \/ ParseCall16

SpecParse == InitParse /\ [][NextParse]_vars


\* the elements of the output array the call has written
WrittenIdx == {i \in 1..Len(pl_output) : pl_output[i] # Marker}

\* the value an element of the overload's array holds for a parsed number
Stored(v) == IF pl_pc = "u16" THEN v % U16_MOD ELSE v

\* C26: a call of parseLine writes only output[0..k-1] with k <= maxNumbers,
\* never an element at index maxNumbers or above; the count is k when the
\* count pointer is non-null and is left alone otherwise; for a list of
\* numbers separated by commas, k is the smaller of the list's length and
\* maxNumbers and the elements are the list's first k numbers in order
C26_ParseLineBounded ==
    pl_pc \in {"long", "u16"} =>
        LET k == Cardinality(WrittenIdx) IN
        /\ WrittenIdx = 1..k
        /\ k <= pl_max
        /\ \A i \in (pl_max + 1)..Len(pl_output) : pl_output[i] = Marker
        /\ pl_count = (IF pl_has_count THEN k ELSE Marker)
        /\ \A l \in ParseLists :
               pl_input = Csv(l) =>
                   /\ k = (IF Len(l) < pl_max THEN Len(l) ELSE pl_max)
                   /\ \A i \in 1..k : pl_output[i] = Stored(l[i])

C26_Witness ==
    /\ pl_pc = "long"
    /\ pl_input = Csv(<<3, 2, 1, 0>>)
    /\ pl_max = 3
    /\ pl_has_count
    /\ pl_count = 3
    /\ pl_output = <<3, 2, 1, Marker, Marker>>


(***************************************************************************)
(* The host writes the command frame of one session configuration, whole,  *)
(* and loop() reads it (part_000:314-397).  The three state-change lists   *)
(* of a configuration have one length.                                     *)
(***************************************************************************)
MkCfg(nc, cd, ip, rp, cpr, t, p, s) ==
    [num_cycles |-> nc, cycle_duration |-> cd, input_pins |-> ip,
     random_output_pins |-> rp, cycles_per_random_update |-> cpr,
     state_change_times |-> t, state_change_pins |-> p,
     state_change_states |-> s]

\* every list at the length its array allows
CfgFull ==
    MkCfg(1000000, 2147483647,
          [i \in 1..MAX_INPUT_PINS |-> 65536 - i],
          [i \in 1..MAX_RANDOM_OUTPUT_PINS |-> 20 + i],
          2147483647,
          [i \in 1..MAX_OUTPUT_STATE_CHANGES |-> 1000 * i],
          [i \in 1..MAX_OUTPUT_STATE_CHANGES |-> 40000 + i],
          [i \in 1..MAX_OUTPUT_STATE_CHANGES |-> i % 2])

CfgEmpty == MkCfg(0, 0, <<>>, <<>>, 0, <<>>, <<>>, <<>>)

CfgWide ==
    MkCfg(7, 33333, <<0, 65535, 256>>, <<255, 300>>, 10, <<0, 100, 100>>,
          <<13, 13, 65535>>, <<1, 0, 1>>)

ValidCfgs ==
    {CfgA, CfgR, CfgFull, CfgEmpty, CfgWide}
    \cup { MkCfg(nc, 100, ip, <<9>>, 1, SubSeq(<<10, 20>>, 1, n),
                 SubSeq(<<7, 8>>, 1, n), SubSeq(<<1, 0>>, 1, n)) :
             nc \in {1, 10}, ip \in {<<>>, <<5, 6>>}, n \in 0..2 }

InitFrames ==
    /\ InitSer
    /\ level = ZeroLevel
    /\ AzBoot("azure", "idle", 0)
    /\ HostBoot
    /\ pl_pc = "frame"
    /\ pl_input = <<>>
    /\ pl_max = 0
    /\ pl_has_count = FALSE
    /\ pl_output = <<>>
    /\ pl_count = 0
    /\ pl_cfg \in ValidCfgs

SendFrame ==
    /\ pl_pc = "frame"
    /\ pc = "idle"
    /\ rx = <<>>
    /\ rx' = Frame(pl_cfg)
    /\ pl_pc' = "sent"
    /\ EnvStep
    /\ UNCHANGED <<pc, field, sends, level, elapsed_cycle_time, cycle_index,
                   num_input_pins, input_pins, previous_input_pin_states, loc,
                   step_index, finished_wrap_up, random_bit, first_byte,
                   footer_char, own_lines, run_time, term, saw_I, unrep,
                   i_in_run, sc9, err9>>
    /\ UNCHANGED <<isrVars, rej_pins, azVars, hostVars>>
    /\ UNCHANGED <<pl_input, pl_max, pl_has_count, pl_output, pl_count, pl_cfg>>

NextFrames ==
    \/ SendFrame
    \/ LoopPass
    \/ ReadLine

SpecFrames == InitFrames /\ [][NextFrames]_vars

\* the configuration acquisitionLoop is called with
PassedCfg ==
    MkCfg(loc.num_cycles, loc.cycle_duration,
          SubSeq(input_pins, 1, num_input_pins),
          loc.random_output_pins, loc.cycles_per_random_update,
          SubSeq(loc.state_change_times, 1, loc.num_state_changes),
          SubSeq(loc.state_change_pins, 1, loc.num_state_changes),
          SubSeq(loc.state_change_states, 1, loc.num_state_changes))

\* C27: the command frame of a valid session configuration, read by loop(),
\* is never answered with ERROR, is read to its last line, and
\* acquisitionLoop is called with the configuration that was encoded
C27_FrameRoundTrip ==
    pl_pc = "sent" =>
        /\ "ERROR" \notin Toks(out)
        /\ pc = "parse" => HasNL(rx)
        /\ pc = "run" => PassedCfg = pl_cfg

C27_Witness ==
    /\ pl_pc = "sent"
    /\ pc = "run"
    /\ pl_cfg = CfgFull
    /\ num_input_pins = MAX_INPUT_PINS
    /\ Len(loc.random_output_pins) = MAX_RANDOM_OUTPUT_PINS
    /\ loc.num_state_changes = MAX_OUTPUT_STATE_CHANGES
    /\ rx = <<>>


(***************************************************************************)
(* Runs with random output pins: the host writes the frame of a session of *)
(* RandCycles cycles whose random bit is updated every 1, 2 or 3 cycles,   *)
(* loop() reads it and acquisitionLoop runs while the monitored pin        *)
(* changes at any time; the host may also write an interrupt byte or a     *)
(* line that is no command, at any time.                                   *)
(***************************************************************************)
RandCycles == 4

RandCfgs ==
    { MkCfg(RandCycles, 1, <<5>>, rp, n, <<>>, <<>>, <<>>) :
        rp \in {<<9>>, <<9, 10>>}, n \in 1..3 }

InitRandom ==
    /\ InitSer
    /\ level = ZeroLevel
    /\ AzBoot("azure", "idle", 0)
    /\ HostBoot
    /\ pl_pc = "frame"
    /\ pl_input = <<>>
    /\ pl_max = 0
    /\ pl_has_count = FALSE
    /\ pl_output = <<>>
    /\ pl_count = 0
    /\ pl_cfg \in RandCfgs

NextRandom ==
    \/ SendFrame
    \/ LoopPass
    \/ ReadLine
    \/ Tick
    \/ PinChange(5)
    \/ HostSend(InterruptByte)
    \/ HostSend(Junk)
    \/ AcqIter
    \/ AcqFinish

SpecRandom == InitRandom /\ [][NextRandom]_vars

\* the reports of the random bit among what a step wrote
IsRand(r) == r.src = "rand"

RandOut(o) == SelectSeq(o, IsRand)

\* the step is a cycle boundary whose new cycle_index is a multiple of N
AtMultiple ==
    /\ cycle_index' = cycle_index + 1
    /\ cycle_index' % loc.cycles_per_random_update = 0

C28_Act ==
    (pc = "run" /\ pc' = "run" /\ step' = "AcqIter"
     /\ loc.cycles_per_random_update > 0) =>
        LET pins == loc.random_output_pins IN
        IF AtMultiple
        THEN /\ random_bit' \in {0, 1}
             /\ wr' = [i \in 1..Len(pins) |->
                          PinCall("write", pins[i], random_bit')]
             /\ Len(RandOut(out')) = Len(pins)
             /\ \A i \in 1..Len(pins) :
                    /\ RandOut(out')[i].pin = pins[i]
                    /\ RandOut(out')[i].state = random_bit'
        ELSE /\ random_bit' = random_bit
             /\ RandOut(out') = <<>>
             /\ wr' = <<>>

\* C28: with N = cycles_per_random_update >= 1, an iteration of the
\* acquisition loop draws the random bit exactly when it is a cycle boundary
\* whose new cycle_index is a multiple of N; it then writes the drawn bit to
\* every random output pin and emits one report per random output pin with
\* that bit, and any other iteration leaves the bit and the pins alone and
\* emits no report of it
C28_RandomCadence == [][C28_Act]_vars

C28_Witness ==
    /\ pc = "run"
    /\ step = "AcqIter"
    /\ loc.cycles_per_random_update = 2
    /\ loc.random_output_pins = <<9, 10>>
    /\ cycle_index = 4
    /\ random_bit = 1
    /\ Len(RandOut(out)) = 2


(***************************************************************************)
(* The bytes on the serial line (part_000:169-177 and the Serial.write of  *)
(* each reply).  The board is little-endian.                               *)
(***************************************************************************)
\* Serial.write((byte*)(&v), n): the n bytes of v, lowest first
LEBad(v, n) == IF v < 256 THEN <<v>> ELSE <<v % 256, v \div 256>>

LE(v, n) == [i \in 1..n |-> (v \div (256 ^ (i - 1))) % 256]

\* "READY", "ERROR", "RECEIVED", "INTERRUPTED", "F"
ReplyText ==
    [READY |-> <<82, 69, 65, 68, 89>>,
     ERROR |-> <<69, 82, 82, 79, 82>>,
     RECEIVED |-> <<82, 69, 67, 69, 73, 86, 69, 68>>,
     INTERRUPTED |-> <<73, 78, 84, 69, 82, 82, 85, 80, 84, 69, 68>>,
     F |-> <<70>>]

\* what one reportPinState call, or one Serial.write of a reply, sends
WireBytes(m) ==
    IF m.tok = "report"
    THEN <<STX>> \o LE(m.pin, 2) \o LE(m.state, 1) \o LE(m.time, 4)
         \o LE(m.cycle, 4) \o <<NL>>
    ELSE ReplyText[m.tok] \o <<NL>>

\* what the calls of one step send, one after the other
RECURSIVE Wire(_)
Wire(o) == IF o = <<>> THEN <<>> ELSE WireBytes(Head(o)) \o Wire(Tail(o))

\* a reply or a report without the call site
Msg(m) == [tok |-> m.tok, pin |-> m.pin, state |-> m.state, time |-> m.time,
           cycle |-> m.cycle]

\* a host that reads 13 bytes when the next byte is STX and a line otherwise
C29_Value(b, from, n) ==
    IF n = 1 THEN b[from]
    ELSE IF n = 2 THEN b[from] + 256 * b[from + 1]
    ELSE b[from] + 256 * b[from + 1] + 65536 * b[from + 2]
         + 16777216 * b[from + 3]

C29_Malformed == [tok |-> "?", pin |-> 0, state |-> 0, time |-> 0, cycle |-> 0]

C29_Reply(text) ==
    IF \E n \in DOMAIN ReplyText : ReplyText[n] = text
    THEN [tok |-> CHOOSE n \in DOMAIN ReplyText : ReplyText[n] = text,
          pin |-> 0, state |-> 0, time |-> 0, cycle |-> 0]
    ELSE C29_Malformed

RECURSIVE C29_Split(_)
C29_Split(b) ==
    IF b = <<>> THEN <<>>
    ELSE IF b[1] = STX
    THEN IF Len(b) < 13 \/ CharAt(b, 13) # NL THEN <<C29_Malformed>>
         ELSE <<[tok |-> "report", pin |-> C29_Value(b, 2, 2),
                 state |-> C29_Value(b, 4, 1), time |-> C29_Value(b, 5, 4),
                 cycle |-> C29_Value(b, 9, 4)]>>
              \o C29_Split(SubSeq(b, 14, Len(b)))
    ELSE IF ~HasNL(b) THEN <<C29_Malformed>>
    ELSE <<C29_Reply(SubSeq(b, 1, FirstNL(b) - 1))>>
         \o C29_Split(SubSeq(b, FirstNL(b) + 1, Len(b)))

\* C29: every report is sent as 13 bytes in a row: STX, the pin in 2 bytes,
\* the state in 1, the time in 4, the cycle index in 4, and a newline; no
\* reply starts with STX or holds a newline before its last byte; and the
\* bytes a step sends split in one way only into the replies and reports it
\* sent, whatever the bytes inside a report are
C29_RecordsSplit ==
    /\ \A k \in 1..Len(out) :
           LET b == WireBytes(out[k]) IN
           IF out[k].tok = "report"
           THEN /\ Len(b) = 13
                /\ b[1] = STX
                /\ SubSeq(b, 2, 3) = LE(out[k].pin, 2)
                /\ SubSeq(b, 4, 4) = LE(out[k].state, 1)
                /\ SubSeq(b, 5, 8) = LE(out[k].time, 4)
                /\ SubSeq(b, 9, 12) = LE(out[k].cycle, 4)
                /\ b[13] = NL
           ELSE /\ b[1] # STX
                /\ FirstNL(b) = Len(b)
    /\ C29_Split(Wire(out)) = [k \in 1..Len(out) |-> Msg(out[k])]

C29_Witness ==
    /\ step = "AcqIter"
    /\ Len(out) = 3
    /\ out[1].pin = 5
    /\ out[3].pin = 10
    /\ out[3].time = 2
    /\ out[3].cycle = 2


(***************************************************************************)
(* Further properties of the Azure firmware (SpecAzure).                   *)
(***************************************************************************)
\* C30: the Azure firmware prints Finished only for a run that was not
\* interrupted and whose cycle counter reached num_cycles: a run that the
\* host interrupts reports the interruption instead
C30_FinishedOnlyWhenComplete ==
    Printed("Finished") =>
        /\ ~Printed("Breaking!")
        /\ ~CycleLess(current_cycle, num_cycles)


(***************************************************************************)
(* The host capture pipeline (spec section 4.5): per camera a capture      *)
(* worker that calls grab_frame with a timeout and pushes each frame to    *)
(* the camera's bounded queue, and a writer worker that takes frames from  *)
(* the queue and calls accept_frame.  A frame is its frame id.  The Python *)
(* sources of the workers are not among the files modelled here; the       *)
(* definitions follow the contract.                                        *)
(***************************************************************************)
HostIdle == UNCHANGED <<serVars, azVars, parseVars>>

\* the dropped-frame counters after a grab_frame timeout on camera c
OnTimeoutBad(counters, c) == [d \in Cams |-> counters[d] + 1]

OnTimeout(counters, c) == [counters EXCEPT ![c] = counters[c] + 1]

\* grab_frame of camera c returns a frame: it is stamped with the camera's
\* frame number and pushed; a full queue refuses it and the refusal is
\* counted
GrabFrame(c) ==
    /\ capture_state[c] = "run"
    /\ ~stop_flag
    /\ cam_frames[c] < MaxFrames
    /\ cam_frames' = [cam_frames EXCEPT ![c] = cam_frames[c] + 1]
    /\ IF Len(frame_queue[c]) < QueueCap
       THEN /\ frame_queue' = [frame_queue EXCEPT
                                  ![c] = Append(frame_queue[c], cam_frames[c])]
            /\ enqueued' = [enqueued EXCEPT
                               ![c] = Append(enqueued[c], cam_frames[c])]
            /\ saturated' = saturated
       ELSE /\ saturated' = [saturated EXCEPT ![c] = saturated[c] + 1]
            /\ UNCHANGED <<frame_queue, enqueued>>
    /\ UNCHANGED <<stop_flag, dropped_frames, accepted, capture_state,
                   writer_state, timeouts>>
    /\ HostIdle

\* grab_frame of camera c times out: the frame is missed, the worker counts
\* it and goes on
GrabTimeout(c) ==
    /\ capture_state[c] = "run"
    /\ ~stop_flag
    /\ cam_frames[c] < MaxFrames
    /\ cam_frames' = [cam_frames EXCEPT ![c] = cam_frames[c] + 1]
    /\ dropped_frames' = OnTimeout(dropped_frames, c)
    /\ timeouts' = [timeouts EXCEPT ![c] = timeouts[c] + 1]
    /\ UNCHANGED <<stop_flag, saturated, frame_queue, accepted, capture_state,
                   writer_state, enqueued>>
    /\ HostIdle

\* the capture worker sees the stop flag at the top of an iteration
CaptureStop(c) ==
    /\ capture_state[c] = "run"
    /\ stop_flag
    /\ capture_state' = [capture_state EXCEPT ![c] = "done"]
    /\ UNCHANGED <<stop_flag, cam_frames, dropped_frames, saturated,
                   frame_queue, accepted, writer_state, enqueued, timeouts>>
    /\ HostIdle

\* the writer worker takes the oldest frame and calls accept_frame
WriteFrame(c) ==
    /\ writer_state[c] = "run"
    /\ frame_queue[c] # <<>>
    /\ accepted' = [accepted EXCEPT ![c] = Append(accepted[c], Head(frame_queue[c]))]
    /\ frame_queue' = [frame_queue EXCEPT ![c] = Tail(frame_queue[c])]
    /\ UNCHANGED <<stop_flag, cam_frames, dropped_frames, saturated,
                   capture_state, writer_state, enqueued, timeouts>>
    /\ HostIdle

\* when the writer worker of camera c may terminate: stop was requested,
\* the capture worker has ended and the queue is drained
WriterMayStopBad(c) == stop_flag

WriterMayStop(c) ==
    /\ stop_flag
    /\ capture_state[c] = "done"
    /\ frame_queue[c] = <<>>

WriterStop(c) ==
    /\ writer_state[c] = "run"
    /\ WriterMayStop(c)
    /\ writer_state' = [writer_state EXCEPT ![c] = "done"]
    /\ UNCHANGED <<stop_flag, cam_frames, dropped_frames, saturated,
                   frame_queue, accepted, capture_state, enqueued, timeouts>>
    /\ HostIdle

RequestStop ==
    /\ ~stop_flag
    /\ stop_flag' = TRUE
    /\ UNCHANGED <<cam_frames, dropped_frames, saturated, frame_queue,
                   accepted, capture_state, writer_state, enqueued, timeouts>>
    /\ HostIdle

InitHost == InitCommon

NextHost ==
    \/ \E c \in Cams : GrabFrame(c)
    \/ \E c \in Cams : GrabTimeout(c)
    \/ \E c \in Cams : CaptureStop(c)
    \/ \E c \in Cams : WriteFrame(c)
    \/ \E c \in Cams : WriterStop(c)
    \/ RequestStop

SpecHost == InitHost /\ [][NextHost]_vars

\* what belongs to camera c
CamState(c) ==
    <<cam_frames[c], dropped_frames[c], saturated[c], frame_queue[c],
      accepted[c], capture_state[c], writer_state[c], enqueued[c]>>

\* a step in which grab_frame of camera c timed out
TimedOut(c) == timeouts'[c] = timeouts[c] + 1

C31_Act ==
    \A c \in Cams :
        TimedOut(c) =>
            /\ dropped_frames'[c] = dropped_frames[c] + 1
            /\ capture_state'[c] = "run"
            /\ \A d \in Cams \ {c} :
                   /\ CamState(d)' = CamState(d)
                   /\ (ENABLED GrabFrame(d))' = ENABLED GrabFrame(d)
                   /\ (ENABLED WriteFrame(d))' = ENABLED WriteFrame(d)

C31_Inv ==
    \A c \in Cams :
        /\ dropped_frames[c] = timeouts[c]
        /\ (timeouts[c] = 0 /\ saturated[c] = 0) =>
               enqueued[c] = [k \in 1..cam_frames[c] |-> k - 1]
        /\ ~stop_flag => capture_state[c] = "run" /\ writer_state[c] = "run"

C32_Inv ==
    \A c \in Cams :
        /\ accepted[c] \o frame_queue[c] = enqueued[c]
        /\ \A i, j \in 1..Len(enqueued[c]) :
               i < j => enqueued[c][i] < enqueued[c][j]
        /\ writer_state[c] = "done" =>
               /\ capture_state[c] = "done"
               /\ frame_queue[c] = <<>>
               /\ accepted[c] = enqueued[c]

C32_Act ==
    \A c \in Cams :
        \/ accepted'[c] = accepted[c]
        \/ /\ frame_queue[c] # <<>>
           /\ accepted'[c] = Append(accepted[c], Head(frame_queue[c]))

\* C32: for each camera the frames passed to accept_frame, followed by the
\* frames still in the queue, are the frames the capture worker pushed, in
\* the order it pushed them and with strictly increasing frame ids;
\* accept_frame is called with the oldest queued frame only; and a writer
\* worker that has terminated has left no frame in the queue: it has passed
\* on every pushed frame, those queued when stop was requested included
C32_EveryFrameWrittenOnce == []C32_Inv /\ [][C32_Act]_vars

C32_Witness ==
    /\ stop_flag
    /\ writer_state[1] = "done"
    /\ accepted[1] = <<0, 1, 2>>
    /\ writer_state[2] = "run"
    /\ capture_state[2] = "done"
    /\ frame_queue[2] = <<1, 2>>
    /\ accepted[2] = <<0>>


(***************************************************************************)
(* More properties of the polling firmware (SpecPoll).                     *)
(***************************************************************************)
\* C33: the initial-state report of every monitored input pin, written at
\* the start of a run, carries time 0 and cycle index 0, in the first run
\* and in every later one
C33_InitialReportsAtZero ==
    \A k \in 1..Len(out) :
        out[k].src = "init" => out[k].time = 0 /\ out[k].cycle = 0


(***************************************************************************)
(* More properties of the Azure firmware (SpecAzure).                      *)
(***************************************************************************)
\* C34: when a run of N cycles that was not interrupted has ended, each
\* camera group has been triggered num_elements times after each of the N
\* sync pulses: N * num_elements times in the run, num_elements of them
\* after the last sync pulse
C34_CompleteCycles ==
    RunCompleted =>
        \A g \in Groups :
            /\ total_fired[g] = num_cycles * getNumFrameTimeElements(inv_framerate)
            /\ num_cycles > 0 => fired[g] = getNumFrameTimeElements(inv_framerate)


\* C35: when runAcquisition has returned, after the last cycle or after an
\* interrupt, the sync pin, the camera trigger pins and the illumination LED
\* pins are all LOW
C35_PinsLowAfterRun ==
    (az_pc = "idle" /\ Printed("Finished")) =>
        \A p \in PinGroups : pin_level[p] = 0

(***************************************************************************)
(* More properties of the offset tables (SpecTables).                      *)
(***************************************************************************)
\* the index update of basler_pulse_logic in the 120fps variant: the last
\* index is the literal 3, whatever the number of offsets (lines 336-344)
NextBaslerIdx120(idx) == IF idx < 3 THEN idx + 1 ELSE 0

\* the values current_basler_frame_idx takes from idx on
RECURSIVE IdxOrbit120(_, _)
IdxOrbit120(idx, seen) ==
    IF idx \in seen THEN seen
    ELSE IdxOrbit120(NextBaslerIdx120(idx), seen \cup {idx})

\* the inverse framerates getBaslerFrameTimes of the variant has a branch for
Accepted120(inv) == TopFrames120(inv, BaslerF0(NUM_AZURES)) # <<>>

\* C36: in the 120fps variant, for every inverse framerate it accepts, both
\* tables are non-null and every index basler_pulse_logic reads them at is
\* below the number of offsets stored for that framerate
C36_TableReadsInBounds ==
    (variant = "old120" /\ az_pc = "ready" /\ Accepted120(inv_framerate)) =>
        \A g \in Groups :
            /\ basler_frame_times[g] # <<>>
            /\ \A idx \in IdxOrbit120(0, {}) :
                   idx < Len(TopFrames120(inv_framerate, BaslerF0(NUM_AZURES)))


(***************************************************************************)
(* More properties of the polling firmware (SpecPoll), continued.          *)
(***************************************************************************)
\* C37: every scheduled digitalWrite takes its pin and its state from array
\* entries that parseLine wrote for the command of the run: step_index never
\* selects an entry past the parsed pins or the parsed states
C37_WritesUseParsedEntries ==
    (step = "AcqIter" /\ wr # <<>> /\ step_index > 0) =>
        /\ step_index <= loc.n_pins
        /\ step_index <= loc.n_states


(***************************************************************************)
(* More properties of the ISR firmware (SpecIsr).                          *)
(***************************************************************************)
\* C38: the log buffer is empty when a run starts: no pin change that
\* inputStateISR stored before RECEIVED is left to be reported in the run
C38_LogEmptyAtRunStart ==
    Tok("RECEIVED") \in Range(out) => input_log_buffer_index = 0


\* C39: every report emitted inside the while-loop of a run of N cycles, of
\* an edge or of a random bit, carries a cycle index in 0..N-1
C39_ReportCycleInRange ==
    (step = "AcqIter" /\ pc = "run") =>
        \A k \in 1..Len(out) :
            out[k].src \in {"edge", "rand"} =>
                (out[k].cycle >= 0 /\ out[k].cycle < loc.num_cycles)


\* C40: in a cycle of a run, each scheduled state change is applied once, in
\* list order and not before its time; the interrupt check and the cycle
\* boundary come after the last of them; F follows exactly num_cycles cycles
C40_Act ==
    /\ (pc = "run" /\ step_index' = step_index + 1) =>
           /\ step_index < loc.num_state_changes
           /\ elapsed_cycle_time >= loc.state_change_times[step_index + 1]
           /\ wr' = <<PinCall("write", loc.state_change_pins[step_index + 1],
                              loc.state_change_states[step_index + 1])>>
    /\ (pc = "run" /\ step_index' # step_index) =>
           \/ step_index' = step_index + 1
           \/ step_index' = 0 /\ step_index = loc.num_state_changes
    /\ (pc = "run" /\ cycle_index' # cycle_index) =>
           /\ cycle_index' = cycle_index + 1
           /\ step_index = loc.num_state_changes
           /\ finished_wrap_up
           /\ elapsed_cycle_time >= loc.cycle_duration
    /\ (pc = "run" /\ "INTERRUPTED" \in Toks(out')) =>
           step_index = loc.num_state_changes
    /\ (pc = "run" /\ "F" \in Toks(out')) =>
           cycle_index = loc.num_cycles

C40_ChangesOncePerCycle == [][C40_Act]_vars

\* the last boundary of a run of two cycles with a scheduled change
C40_Witness ==
    /\ pc = "run"
    /\ step = "AcqIter"
    /\ loc.num_state_changes > 0
    /\ loc.num_cycles > 1
    /\ cycle_index = loc.num_cycles
    /\ step_index = 0

=============================================================================
